---- MODULE Spec2Model ----
(***************************************************************************)
(* Model of the multi-tier cache manager of src/cache.py: the CacheManager *)
(* singleton, its key codec, the memory / disk / sqlite backends, LRU      *)
(* eviction, invalidation and statistics.                                  *)
(*                                                                         *)
(* Representation.                                                         *)
(*   - a Python str is a sequence of one-character strings;                *)
(*   - an Optional[T] argument is <<>> (None) or <<x>>;                    *)
(*   - a params dict is a sequence of [k, v] items in insertion order;     *)
(*   - the result of a call is a string: a payload, "None", "True" or      *)
(*     "False"; an exception that leaves the call is named in `raised`.    *)
(***************************************************************************)
EXTENDS Integers, Sequences, FiniteSets, TLC

\* ------------------------------------------------------------------ bounds
MaxTime == 2
MaxInstances == 2

\* ------------------------------------------------------- program constants
DefaultTtl == 3600
DefaultMaxSize == 1000

\* --------------------------------------------------------------- variables
VARIABLES
    clsInstance,      \* CacheManager._instance: 0 is None, else an object id
    clsInitialized,   \* CacheManager._initialized (the class attribute)
    objs,             \* the CacheManager objects, by id; an object nothing
                      \* refers to any more is collected
    diskStore,        \* the diskcache store at the cache directory
    sqliteDb,         \* the rows of table `cache` at the database path
    now,              \* time.time()
    HAS_DISKCACHE,    \* whether `from diskcache import Cache` succeeded
    held,             \* the reference the callers hold: 0 or an object id
    ret,              \* the call made last at the present instant, and
                      \* what it returned
    written,          \* per key, the arguments of the set that stored the
                      \* entry the held manager's memory dict has under it
    handed,           \* the ids constructions returned since the last reset
    discarded,        \* the ids that were the singleton when reset was called
    loop              \* the asyncio event loop: the tasks, where each of
                      \* them stands, and the task that is running

vars == <<clsInstance, clsInitialized, objs, diskStore, sqliteDb, now,
          HAS_DISKCACHE, held, ret, written, handed, discarded, loop>>

\* ------------------------------------------------------------ Python values
None == "None"
PyTrue == "True"
PyFalse == "False"

Colon == ":"

\* the map m without the key k (del m[k])
Del(m, k) == [x \in DOMAIN m \ {k} |-> m[x]]

\* the map m with m[k] = v (m[k] = v on a dict)
Put(m, k, v) == [x \in DOMAIN m \cup {k} |-> IF x = k THEN v ELSE m[x]]

EmptyMap == [x \in {} |-> 0]

\* str.startswith
StartsWith(s, p) ==
    /\ Len(p) <= Len(s)
    /\ \A i \in 1..Len(p) : s[i] = p[i]

\* bool(x) of an Optional[float]: None and 0 are falsy
TruthyNum(t) == t # <<>> /\ t[1] # 0

\* bool(x) of an Optional[str]: None and "" are falsy
TruthyStr(s) == s # <<>> /\ s[1] # <<>>

\* bool(x) of an Optional[dict]: None and {} are falsy
TruthyDict(p) == p # <<>> /\ p[1] # <<>>

\* ---------------------------------------------------------------- key codec
\* ord(c) of the characters used as params keys
Ord(c) == CASE c = "a" -> 97 [] c = "b" -> 98 [] c = "c" -> 99 [] OTHER -> 0

\* a params value json cannot encode (a Python set)
Unserializable == "<set>"

RECURSIVE InsertByKey(_, _)
InsertByKey(sorted, it) ==
    IF sorted = <<>> THEN <<it>>
    ELSE IF Ord(it.k) < Ord(Head(sorted).k) THEN <<it>> \o sorted
         ELSE <<Head(sorted)>> \o InsertByKey(Tail(sorted), it)

\* the items of a dict ordered by key (sort_keys=True)
RECURSIVE SortKeys(_)
SortKeys(items) ==
    IF items = <<>> THEN <<>>
    ELSE InsertByKey(SortKeys(SubSeq(items, 1, Len(items) - 1)), items[Len(items)])

RECURSIVE JoinItems(_)
JoinItems(items) ==
    IF items = <<>> THEN <<>>
    ELSE <<"\"", Head(items).k, "\"", ":", " ", Head(items).v>>
         \o (IF Len(items) > 1 THEN <<",", " ">> ELSE <<>>)
         \o JoinItems(Tail(items))

\* whether json.dumps(params) raises TypeError
JsonRaises(items) == \E i \in 1..Len(items) : items[i].v = Unserializable

\* a json.dumps that keeps the items in the order of the dict
JsonDumpsUnsorted(items) == <<"{">> \o JoinItems(items) \o <<"}">>

\* json.dumps(params, sort_keys=True)
JsonDumps(items) == <<"{">> \o JoinItems(SortKeys(items)) \o <<"}">>

RECURSIVE Flatten(_)
Flatten(s) == IF s = <<>> THEN "" ELSE Head(s) \o Flatten(Tail(s))

\* hashlib.md5(s.encode()).hexdigest(): a colon-free digest, one per text
\* (collisions aside), written as a single token
Md5Hex(s) == <<"md5[" \o Flatten(s) \o "]">>

\* whether _generate_key raises
GenerateKeyRaises(params) == TruthyDict(params) /\ JsonRaises(params[1])

\* _generate_key(namespace, identifier, params)
GenerateKey(namespace, identifier, params) ==
    LET key_data == namespace \o <<Colon>> \o identifier
    IN  IF TruthyDict(params)
        THEN key_data \o <<Colon>> \o Md5Hex(JsonDumps(params[1]))
        ELSE key_data

\* --------------------------------------------------------------- CacheEntry
\* a payload whose __str__ / __repr__ raises
Unprintable == "<unprintable>"

\* whether str(data) raises
StrRaises(data) == data = Unprintable

\* len(str(data)) of a payload
StrLen(data) == Len(data)

CacheEntry(data, timestamp, ttl, key, size) ==
    [data |-> data, timestamp |-> timestamp, ttl |-> ttl, key |-> key,
     size |-> size]

\* is_expired that forgets the ttl: stale as soon as the clock moves
IsExpiredIgnoresTtl(entry, t) == t > entry.timestamp

\* is_expired that is one second late
IsExpiredLate(entry, t) == t > entry.timestamp + entry.ttl + 1

\* CacheEntry.is_expired at time t
IsExpired(entry, t) == t > entry.timestamp + entry.ttl

\* ------------------------------------------------- insertion-ordered dicts
\* access_order is a dict whose iteration order the eviction sort observes:
\* it is a sequence of [k, t] items in insertion order
OdKeys(od) == {od[i].k : i \in 1..Len(od)}

OdDel(od, k) == SelectSeq(od, LAMBDA it : it.k # k)

OdPut(od, k, t) ==
    IF k \in OdKeys(od)
    THEN [i \in 1..Len(od) |-> IF od[i].k = k THEN [k |-> k, t |-> t] ELSE od[i]]
    ELSE Append(od, [k |-> k, t |-> t])

RECURSIVE InsertByTime(_, _)
InsertByTime(sorted, it) ==
    IF sorted = <<>> THEN <<it>>
    ELSE IF it.t < Head(sorted).t THEN <<it>> \o sorted
         ELSE <<Head(sorted)>> \o InsertByTime(Tail(sorted), it)

\* sorted(access_order.items(), key=lambda x: x[1]): stable
RECURSIVE SortedItems(_)
SortedItems(od) ==
    IF od = <<>> THEN <<>>
    ELSE InsertByTime(SortedItems(SubSeq(od, 1, Len(od) - 1)), od[Len(od)])

Max(a, b) == IF a >= b THEN a ELSE b

\* ------------------------------------------------------------ memory backend
\* a pass that removes one item whatever the number of items
ItemsToRemoveOne(n) == 1

\* max(1, len(sorted_items) // 10)
ItemsToRemove(n) == Max(1, n \div 10)

\* an eviction pass that takes the keys in the order they were first written
EvictedKeysOldestWritten(o) ==
    IF o.access_order = <<>> THEN {}
    ELSE LET n == ItemsToRemove(Len(o.access_order))
         IN  {o.access_order[i].k : i \in 1..n}

\* the keys _evict_lru removes
EvictedKeys(o) ==
    IF o.access_order = <<>> THEN {}
    ELSE LET sorted_items == SortedItems(o.access_order)
             n == ItemsToRemove(Len(sorted_items))
         IN  {sorted_items[i].k : i \in 1..n}

\* an eviction pass that forgets the access-order records and keeps the
\* entries
EvictLruKeepsEntries(o) ==
    LET gone == EvictedKeys(o)
    IN  [o EXCEPT !.access_order = SelectSeq(o.access_order,
                                             LAMBDA it : it.k \notin gone)]

\* _evict_lru
EvictLru(o) ==
    LET gone == EvictedKeys(o)
    IN  [o EXCEPT !.cache = [k \in DOMAIN o.cache \ gone |-> o.cache[k]],
                  !.access_order = SelectSeq(o.access_order,
                                             LAMBDA it : it.k \notin gone)]

\* a get that first sweeps every expired entry out of the dict
GetMemorySweeps(o, key, t) ==
    LET live == {k \in DOMAIN o.cache : ~IsExpired(o.cache[k], t)}
        swept == [o EXCEPT !.cache = [k \in live |-> o.cache[k]],
                           !.access_order =
                               SelectSeq(@, LAMBDA it : it.k \in live)]
    IN  IF key \notin live
        THEN [obj |-> swept, result |-> None, raised |-> ""]
        ELSE [obj |-> [swept EXCEPT !.access_order = OdPut(@, key, t)],
              result |-> o.cache[key].data, raised |-> ""]

\* a get whose hit restarts the lifetime of the entry
GetMemoryRefreshes(o, key, t) ==
    IF key \notin DOMAIN o.cache
    THEN [obj |-> o, result |-> None, raised |-> ""]
    ELSE IF IsExpired(o.cache[key], t)
         THEN [obj |-> [o EXCEPT !.cache = Del(@, key),
                                 !.access_order = OdDel(@, key)],
               result |-> None, raised |-> ""]
         ELSE [obj |-> [o EXCEPT !.cache[key].timestamp = t,
                                 !.access_order = OdPut(@, key, t)],
               result |-> o.cache[key].data, raised |-> ""]

\* a get whose hit leaves the access-order record as it was
GetMemoryKeepsOrder(o, key, t) ==
    IF key \notin DOMAIN o.cache
    THEN [obj |-> o, result |-> None, raised |-> ""]
    ELSE IF IsExpired(o.cache[key], t)
         THEN [obj |-> [o EXCEPT !.cache = Del(@, key),
                                 !.access_order = OdDel(@, key)],
               result |-> None, raised |-> ""]
         ELSE [obj |-> o, result |-> o.cache[key].data, raised |-> ""]

\* a get that deletes an expired entry and leaves its access-order record
GetMemoryLeavesOrder(o, key, t) ==
    IF key \notin DOMAIN o.cache
    THEN [obj |-> o, result |-> None, raised |-> ""]
    ELSE IF IsExpired(o.cache[key], t)
         THEN [obj |-> [o EXCEPT !.cache = Del(@, key)],
               result |-> None, raised |-> ""]
         ELSE [obj |-> [o EXCEPT !.access_order = OdPut(@, key, t)],
               result |-> o.cache[key].data, raised |-> ""]

\* _get_memory
GetMemory(o, key, t) ==
    IF key \notin DOMAIN o.cache
    THEN [obj |-> o, result |-> None, raised |-> ""]
    ELSE IF IsExpired(o.cache[key], t)
         THEN [obj |-> [o EXCEPT !.cache = Del(@, key),
                                 !.access_order = OdDel(@, key)],
               result |-> None, raised |-> ""]
         ELSE [obj |-> [o EXCEPT !.access_order = OdPut(@, key, t)],
               result |-> o.cache[key].data, raised |-> ""]

\* a capacity test that lets the dict grow one past max_size
AtCapacityOver(o) == Cardinality(DOMAIN o.cache) > o.max_size

\* whether _set_memory runs an eviction pass
AtCapacity(o) == Cardinality(DOMAIN o.cache) >= o.max_size

\* a _set_memory that writes the entry first and evicts afterwards
SetMemoryEvictsLast(o, key, data, ttl, t) ==
    LET entry == CacheEntry(data, t, ttl, key, StrLen(data))
        o1 == [o EXCEPT !.cache = Put(@, key, entry),
                        !.access_order = OdPut(@, key, t)]
    IN  [obj |-> IF AtCapacity(o) THEN EvictLru(o1) ELSE o1,
         result |-> PyTrue, raised |-> ""]

\* a _set_memory that runs the eviction pass only for a key the dict does
\* not hold
SetMemoryEvictsForNewKey(o, key, data, ttl, t) ==
    LET o1 == IF AtCapacity(o) /\ key \notin DOMAIN o.cache
              THEN EvictLru(o) ELSE o
        entry == CacheEntry(data, t, ttl, key, StrLen(data))
    IN  [obj |-> [o1 EXCEPT !.cache = Put(@, key, entry),
                            !.access_order = OdPut(@, key, t)],
         result |-> PyTrue, raised |-> ""]

\* a _set_memory that writes the entry first and runs the eviction pass only
\* if the dict has then grown past max_size
SetMemoryEvictsAfterInsert(o, key, data, ttl, t) ==
    LET entry == CacheEntry(data, t, ttl, key, StrLen(data))
        o1 == [o EXCEPT !.cache = Put(@, key, entry),
                        !.access_order = OdPut(@, key, t)]
    IN  [obj |-> IF AtCapacityOver(o1) THEN EvictLru(o1) ELSE o1,
         result |-> PyTrue, raised |-> ""]

\* _set_memory; size=len(str(data)) raises, after the eviction pass, for a
\* payload that cannot be printed
SetMemory(o, key, data, ttl, t) ==
    LET o1 == IF AtCapacity(o) THEN EvictLru(o) ELSE o
        entry == CacheEntry(data, t, ttl, key, StrLen(data))
    IN  IF StrRaises(data)
        THEN [obj |-> o1, result |-> None, raised |-> "ValueError"]
        ELSE [obj |-> [o1 EXCEPT !.cache = Put(@, key, entry),
                                 !.access_order = OdPut(@, key, t)],
              result |-> PyTrue, raised |-> ""]

\* -------------------------------------------------------------- disk backend
\* The diskcache store is a table of rows [key, value, expire_time] in rowid
\* order.  get, `in` and del see only the rows whose expire_time is still
\* ahead; len and iteration see every row; a set culls the rows whose
\* expire_time has passed.
DiskKeys(disk) == {disk[i].key : i \in 1..Len(disk)}

DiskRow(disk, key) == disk[CHOOSE i \in 1..Len(disk) : disk[i].key = key]

\* key in cache
DiskContains(disk, key, t) ==
    key \in DiskKeys(disk) /\ DiskRow(disk, key).expire_time > t

\* Cache.get(key)
DiskCacheGet(disk, key, t) ==
    IF DiskContains(disk, key, t) THEN <<DiskRow(disk, key).value>> ELSE <<>>

\* del cache[key], for a key the store contains
DiskCacheDel(disk, key) == SelectSeq(disk, LAMBDA row : row.key # key)

\* Cache.set(key, value, expire=ttl)
DiskCacheSet(disk, key, value, expire, t) ==
    LET row == [key |-> key, value |-> value, expire_time |-> t + expire]
        stored == IF key \in DiskKeys(disk)
                  THEN [i \in 1..Len(disk) |->
                           IF disk[i].key = key THEN row ELSE disk[i]]
                  ELSE Append(disk, row)
    IN  SelectSeq(stored, LAMBDA r : ~(r.expire_time < t))

\* _get_disk on a manager whose cache is a diskcache store
GetDiskStore(disk, key, t, fault) ==
    IF fault THEN [disk |-> disk, result |-> None]
    ELSE LET entry_dict == DiskCacheGet(disk, key, t)
         IN  IF entry_dict = <<>> THEN [disk |-> disk, result |-> None]
             ELSE IF IsExpired(entry_dict[1], t)
                  THEN [disk |-> DiskCacheDel(disk, key), result |-> None]
                  ELSE [disk |-> disk, result |-> entry_dict[1].data]

\* _get_disk on a manager that fell back to a dict: dict.get(key) is None
\* for a missing key, and CacheEntry(**entry) raises on a stored CacheEntry,
\* which is caught
GetDiskDict(o, key, t) == [obj |-> o, result |-> None]

\* _set_disk on a diskcache store
SetDiskStore(disk, key, data, ttl, t, fault) ==
    IF fault THEN [disk |-> disk, result |-> PyFalse]
    ELSE [disk |-> DiskCacheSet(disk, key, CacheEntry(data, t, ttl, key, 0),
                                ttl, t),
          result |-> PyTrue]

\* _set_disk on a manager that fell back to a dict: a dict has no `set`,
\* the AttributeError is caught
SetDiskDict(o, key, data, ttl, t) == [obj |-> o, result |-> PyFalse]

\* ------------------------------------------------------------ sqlite backend
\* pickle.dumps / pickle.loads
PickleDumps(data) == <<"pickle", data>>
PickleLoads(blob) == blob[2]

\* _get_sqlite
GetSqlite(db, key, t, fault) ==
    IF fault THEN [db |-> db, result |-> None]
    ELSE IF key \notin DOMAIN db THEN [db |-> db, result |-> None]
    ELSE IF t > db[key].timestamp + db[key].ttl
         THEN [db |-> Del(db, key), result |-> None]
         ELSE [db |-> db, result |-> PickleLoads(db[key].data)]

\* an insert that leaves the row of a key the table already holds
SetSqliteIgnores(db, key, data, ttl, t, fault) ==
    IF fault THEN [db |-> db, result |-> PyFalse]
    ELSE IF key \in DOMAIN db THEN [db |-> db, result |-> PyTrue]
    ELSE LET data_blob == PickleDumps(data)
         IN  [db |-> Put(db, key, [data |-> data_blob, timestamp |-> t,
                                   ttl |-> ttl, size |-> Len(data_blob)]),
              result |-> PyTrue]

\* _set_sqlite
SetSqlite(db, key, data, ttl, t, fault) ==
    IF fault THEN [db |-> db, result |-> PyFalse]
    ELSE LET data_blob == PickleDumps(data)
         IN  [db |-> Put(db, key, [data |-> data_blob, timestamp |-> t,
                                   ttl |-> ttl, size |-> Len(data_blob)]),
              result |-> PyTrue]

\* ------------------------------------------------------------- the manager
\* a CacheManager object before __init__ has set anything
BlankObj ==
    [allocated |-> FALSE, initialized |-> FALSE, cache_type |-> "",
     default_ttl |-> 0, max_size |-> 0, cacheKind |-> "unset",
     cache |-> EmptyMap, access_order |-> <<>>, conn |-> FALSE]

\* dict.get(name, default) on the configuration
ConfigGet(field, default) == IF field = <<>> THEN default ELSE field[1]

\* _init_memory_cache
InitMemoryCache(o, config) ==
    [o EXCEPT !.cache = EmptyMap, !.access_order = <<>>,
              !.cacheKind = "dict",
              !.max_size = ConfigGet(config.max_size, DefaultMaxSize)]

\* _init_disk_cache; the store at an unusable directory cannot be opened
InitDiskCache(o, config, hasDiskcache) ==
    IF ~hasDiskcache THEN [obj |-> InitMemoryCache(o, config), raised |-> ""]
    ELSE IF config.loc = "bad" THEN [obj |-> o, raised |-> "OSError"]
    ELSE [obj |-> [o EXCEPT !.cacheKind = "diskcache"], raised |-> ""]

\* an _init_sqlite_cache that falls back to a dict on an unusable path
InitSqliteCacheDegrades(o, config) ==
    IF config.loc = "bad" THEN [obj |-> InitMemoryCache(o, config), raised |-> ""]
    ELSE [obj |-> [o EXCEPT !.conn = TRUE], raised |-> ""]

\* _init_sqlite_cache; sqlite3.connect raises on an unusable path
InitSqliteCache(o, config) ==
    IF config.loc = "bad" THEN [obj |-> o, raised |-> "OperationalError"]
    ELSE [obj |-> [o EXCEPT !.conn = TRUE], raised |-> ""]

\* the configuration __init__ uses when it is given None
NoneConfig ==
    [type |-> <<"memory">>, default_ttl |-> <<DefaultTtl>>, max_size |-> <<>>,
     loc |-> "good"]

\* a guard that reads the class attribute only, which nothing ever sets
IsInitializedClassOnly(o, clsInit) == clsInit

\* self._initialized: the instance attribute, else the class attribute
IsInitialized(o, clsInit) == o.initialized \/ clsInit

\* an __init__ that sets the flag before it sets up the backend, so that
\* the flag stays set when the set-up raises
InitBodyFlagsFirst(o, cfg, hasDiskcache) ==
    LET config == IF cfg = <<>> THEN NoneConfig ELSE cfg[1]
        o1 == [o EXCEPT !.cache_type = ConfigGet(config.type, "memory"),
                        !.default_ttl = ConfigGet(config.default_ttl,
                                                  DefaultTtl),
                        !.initialized = TRUE]
    IN  IF o1.cache_type = "disk"
        THEN InitDiskCache(o1, config, hasDiskcache)
        ELSE IF o1.cache_type = "sqlite"
             THEN InitSqliteCache(o1, config)
             ELSE [obj |-> InitMemoryCache(o1, config), raised |-> ""]

\* __init__ past its guard: the configuration, the backend, the flag
InitBody(o, cfg, hasDiskcache) ==
    LET config == IF cfg = <<>> THEN NoneConfig ELSE cfg[1]
        o1 == [o EXCEPT !.cache_type = ConfigGet(config.type, "memory"),
                        !.default_ttl = ConfigGet(config.default_ttl,
                                                  DefaultTtl)]
        r == IF o1.cache_type = "disk"
             THEN InitDiskCache(o1, config, hasDiskcache)
             ELSE IF o1.cache_type = "sqlite"
                  THEN InitSqliteCache(o1, config)
                  ELSE [obj |-> InitMemoryCache(o1, config), raised |-> ""]
    IN  IF r.raised # "" THEN r
        ELSE [obj |-> [r.obj EXCEPT !.initialized = TRUE], raised |-> ""]

\* __init__(self, config)
InitObj(o, cfg, clsInit, hasDiskcache) ==
    IF IsInitialized(o, clsInit) THEN [obj |-> o, raised |-> ""]
    ELSE InitBody(o, cfg, hasDiskcache)

\* the state a manager method reads and writes: the object and the two stores
World(o, disk, db) == [obj |-> o, disk |-> disk, db |-> db]

\* CacheManager.get, after the key is generated
GetKey(w, key, t, fault) ==
    LET o == w.obj
    IN  IF o.cache_type = "memory"
        THEN LET r == GetMemory(o, key, t)
             IN  [w |-> [w EXCEPT !.obj = r.obj], result |-> r.result]
        ELSE IF o.cache_type = "disk"
        THEN IF o.cacheKind = "diskcache"
             THEN LET r == GetDiskStore(w.disk, key, t, fault)
                  IN  [w |-> [w EXCEPT !.disk = r.disk], result |-> r.result]
             ELSE LET r == GetDiskDict(o, key, t)
                  IN  [w |-> [w EXCEPT !.obj = r.obj], result |-> r.result]
        ELSE IF o.cache_type = "sqlite"
        THEN LET r == GetSqlite(w.db, key, t, fault)
             IN  [w |-> [w EXCEPT !.db = r.db], result |-> r.result]
        ELSE [w |-> w, result |-> None]

\* CacheManager.get
CacheGet(w, namespace, identifier, params, t, fault) ==
    IF GenerateKeyRaises(params)
    THEN [w |-> w, result |-> None, raised |-> "TypeError"]
    ELSE LET r == GetKey(w, GenerateKey(namespace, identifier, params), t, fault)
         IN  [w |-> r.w, result |-> r.result, raised |-> ""]

\* a default taken from the built-in value, not from the manager
EffectiveTtlBuiltIn(o, ttl) == IF TruthyNum(ttl) THEN ttl[1] ELSE DefaultTtl

\* a ttl of 0 taken as given: the default only for a ttl that is None
EffectiveTtlHonoursZero(o, ttl) ==
    IF ttl # <<>> THEN ttl[1] ELSE o.default_ttl

\* ttl or self.default_ttl
EffectiveTtl(o, ttl) == IF TruthyNum(ttl) THEN ttl[1] ELSE o.default_ttl

\* CacheManager.set, after the key is generated
SetKey(w, key, data, ttl, t, fault) ==
    LET o == w.obj
    IN  IF o.cache_type = "memory"
        THEN LET r == SetMemory(o, key, data, ttl, t)
             IN  [w |-> [w EXCEPT !.obj = r.obj],
                  result |-> IF r.raised # "" THEN PyFalse ELSE r.result]
        ELSE IF o.cache_type = "disk"
        THEN IF o.cacheKind = "diskcache"
             THEN LET r == SetDiskStore(w.disk, key, data, ttl, t, fault)
                  IN  [w |-> [w EXCEPT !.disk = r.disk], result |-> r.result]
             ELSE LET r == SetDiskDict(o, key, data, ttl, t)
                  IN  [w |-> [w EXCEPT !.obj = r.obj], result |-> r.result]
        ELSE IF o.cache_type = "sqlite"
        THEN LET r == SetSqlite(w.db, key, data, ttl, t, fault)
             IN  [w |-> [w EXCEPT !.db = r.db], result |-> r.result]
        ELSE [w |-> w, result |-> None]

\* CacheManager.set
CacheSet(w, namespace, identifier, data, ttl, params, t, fault) ==
    IF GenerateKeyRaises(params)
    THEN [w |-> w, result |-> None, raised |-> "TypeError"]
    ELSE LET r == SetKey(w, GenerateKey(namespace, identifier, params), data,
                         EffectiveTtl(w.obj, ttl), t, fault)
         IN  [w |-> r.w, result |-> r.result, raised |-> ""]

\* ------------------------------------------------------------- invalidation
\* the ASCII letters, which SQLite's LIKE does not tell apart by case
UpperCase ==
    <<"A", "B", "C", "D", "E", "F", "G", "H", "I", "J", "K", "L", "M",
      "N", "O", "P", "Q", "R", "S", "T", "U", "V", "W", "X", "Y", "Z">>

LowerCase ==
    <<"a", "b", "c", "d", "e", "f", "g", "h", "i", "j", "k", "l", "m",
      "n", "o", "p", "q", "r", "s", "t", "u", "v", "w", "x", "y", "z">>

Lower(c) ==
    IF \E i \in 1..Len(UpperCase) : UpperCase[i] = c
    THEN LowerCase[CHOOSE i \in 1..Len(UpperCase) : UpperCase[i] = c]
    ELSE c

\* SQLite's `text LIKE pattern`: % stands for any run of characters, _ for
\* any one character, a letter for itself in either case
RECURSIVE Like(_, _)
Like(text, pattern) ==
    IF pattern = <<>> THEN text = <<>>
    ELSE IF Head(pattern) = "%"
    THEN \E n \in 0..Len(text) :
             Like(SubSeq(text, n + 1, Len(text)), Tail(pattern))
    ELSE IF text = <<>> THEN FALSE
    ELSE /\ Head(pattern) = "_" \/ Lower(Head(pattern)) = Lower(Head(text))
         /\ Like(Tail(text), Tail(pattern))

\* the first row of the store, in rowid order, that the namespace loop of
\* _delete_namespace cannot delete (del raises KeyError on an expired row);
\* 0 when the loop completes
RECURSIVE FirstDead(_, _, _, _)
FirstDead(disk, prefix, t, i) ==
    IF i > Len(disk) THEN 0
    ELSE IF StartsWith(disk[i].key, prefix) /\ ~(disk[i].expire_time > t)
         THEN i
         ELSE FirstDead(disk, prefix, t, i + 1)

\* a _delete_key that leaves the access-order record of a memory entry
DeleteKeyLeavesOrder(w, key, t, fault) ==
    LET o == w.obj
    IN  IF o.cache_type = "memory"
        THEN [w EXCEPT !.obj.cache = Del(@, key)]
        ELSE IF o.cache_type = "disk"
        THEN IF o.cacheKind = "diskcache" /\ ~fault
                /\ DiskContains(w.disk, key, t)
             THEN [w EXCEPT !.disk = DiskCacheDel(@, key)]
             ELSE w
        ELSE IF o.cache_type = "sqlite" /\ ~fault
        THEN [w EXCEPT !.db = Del(@, key)]
        ELSE w

\* _delete_key
DeleteKey(w, key, t, fault) ==
    LET o == w.obj
    IN  IF o.cache_type = "memory"
        THEN [w EXCEPT !.obj.cache = Del(@, key),
                       !.obj.access_order = OdDel(@, key)]
        ELSE IF o.cache_type = "disk"
        THEN IF o.cacheKind = "diskcache" /\ ~fault
                /\ DiskContains(w.disk, key, t)
             THEN [w EXCEPT !.disk = DiskCacheDel(@, key)]
             ELSE w
        ELSE IF o.cache_type = "sqlite" /\ ~fault
        THEN [w EXCEPT !.db = Del(@, key)]
        ELSE w

\* a _delete_namespace that leaves the access-order records of the memory
\* entries it deletes
DeleteNamespaceLeavesOrder(w, namespace, t, fault) ==
    LET o == w.obj
        prefix == namespace \o <<Colon>>
    IN  IF o.cache_type = "memory"
        THEN [w EXCEPT !.obj.cache =
                           [k \in {x \in DOMAIN o.cache : ~StartsWith(x, prefix)}
                               |-> o.cache[k]]]
        ELSE w

\* _delete_namespace
DeleteNamespace(w, namespace, t, fault) ==
    LET o == w.obj
        prefix == namespace \o <<Colon>>
    IN  IF o.cache_type = "memory"
        THEN LET keys_to_delete == {k \in DOMAIN o.cache : StartsWith(k, prefix)}
             IN  [w EXCEPT !.obj.cache = [k \in DOMAIN o.cache \ keys_to_delete
                                             |-> o.cache[k]],
                           !.obj.access_order =
                               SelectSeq(o.access_order,
                                         LAMBDA it : it.k \notin keys_to_delete)]
        ELSE IF o.cache_type = "disk"
        THEN IF o.cacheKind = "diskcache" /\ ~fault
             THEN LET stop == FirstDead(w.disk, prefix, t, 1)
                      last == IF stop = 0 THEN Len(w.disk) ELSE stop - 1
                      gone == {w.disk[i].key : i \in
                                  {j \in 1..last : StartsWith(w.disk[j].key, prefix)}}
                  IN  [w EXCEPT !.disk = SelectSeq(@, LAMBDA r : r.key \notin gone)]
             ELSE w
        ELSE IF o.cache_type = "sqlite" /\ ~fault
        THEN [w EXCEPT !.db = [k \in {x \in DOMAIN w.db :
                                           ~Like(x, prefix \o <<"%">>)}
                                  |-> w.db[k]]]
        ELSE w

\* an invalidate that deletes the one key whenever an identifier is given,
\* the empty string included
CacheInvalidateIfGiven(w, namespace, identifier, params, t, fault) ==
    IF identifier # <<>>
    THEN IF GenerateKeyRaises(params)
         THEN [w |-> w, result |-> None, raised |-> "TypeError"]
         ELSE [w |-> DeleteKey(w, GenerateKey(namespace, identifier[1], params),
                               t, fault),
               result |-> None, raised |-> ""]
    ELSE [w |-> DeleteNamespace(w, namespace, t, fault),
          result |-> None, raised |-> ""]

\* CacheManager.invalidate
CacheInvalidate(w, namespace, identifier, params, t, fault) ==
    IF TruthyStr(identifier)
    THEN IF GenerateKeyRaises(params)
         THEN [w |-> w, result |-> None, raised |-> "TypeError"]
         ELSE [w |-> DeleteKey(w, GenerateKey(namespace, identifier[1], params),
                               t, fault),
               result |-> None, raised |-> ""]
    ELSE [w |-> DeleteNamespace(w, namespace, t, fault),
          result |-> None, raised |-> ""]

\* --------------------------------------------------------------- statistics
NoStats ==
    [type |-> <<>>, default_ttl |-> <<>>, size |-> <<>>, max_size |-> <<>>,
     hit_ratio |-> <<>>, volume |-> <<>>, total_size |-> <<>>, error |-> <<>>]

RECURSIVE SumSizes(_, _)
SumSizes(db, keys) ==
    IF keys = {} THEN 0
    ELSE LET k == CHOOSE x \in keys : TRUE
         IN  db[k].size + SumSizes(db, keys \ {k})

\* a get_stats that reports the capacity as the size
GetStatsSizeFromCapacity(w, fault) ==
    [NoStats EXCEPT !.type = <<w.obj.cache_type>>,
                    !.default_ttl = <<w.obj.default_ttl>>,
                    !.size = <<w.obj.max_size>>,
                    !.max_size = <<w.obj.max_size>>,
                    !.hit_ratio = <<"not_tracked">>]

\* CacheManager.get_stats
GetStats(w, fault) ==
    LET o == w.obj
        stats == [NoStats EXCEPT !.type = <<o.cache_type>>,
                                 !.default_ttl = <<o.default_ttl>>]
    IN  IF o.cache_type = "memory"
        THEN [stats EXCEPT !.size = <<Cardinality(DOMAIN o.cache)>>,
                           !.max_size = <<o.max_size>>,
                           !.hit_ratio = <<"not_tracked">>]
        ELSE IF o.cache_type = "disk"
        THEN IF o.cacheKind # "diskcache"
             THEN [stats EXCEPT !.error = <<"AttributeError">>]
             ELSE IF fault THEN [stats EXCEPT !.error = <<"OperationalError">>]
             ELSE [stats EXCEPT !.size = <<Len(w.disk)>>,
                                !.volume = <<Len(w.disk)>>]
        ELSE IF o.cache_type = "sqlite"
        THEN IF fault THEN [stats EXCEPT !.error = <<"OperationalError">>]
             ELSE [stats EXCEPT !.size = <<Cardinality(DOMAIN w.db)>>,
                                !.total_size = <<SumSizes(w.db, DOMAIN w.db)>>]
        ELSE stats

\* ------------------------------------------------------------------ actions
Ids == 1..MaxInstances

NumAllocated == Cardinality({i \in Ids : objs[i].allocated})

\* ret: the call (op, the reference it went through, its arguments, whether
\* the storage failed under it), what it returned or raised, and what it
\* met: `first` - no construction had returned since the last reset;
\* `found` - the entry stored under the key when the call began; `was` - the
\* set that had stored that entry; `size0` - the number of entries in the
\* memory dict when a set or an invalidate began; `evicted` - the access-order items the
\* call's eviction pass removed; `dropped` - the number of entries in the
\* memory dict of the manager the callers held before a construction handed
\* them another one; `retried` - the construction met the instance a
\* construction that raised had left with the class
NoCall ==
    [op |-> "none", ref |-> 0, cfg |-> <<>>, first |-> FALSE,
     namespace |-> <<>>, identifier |-> <<>>, params |-> <<>>, ttl |-> <<>>,
     fault |-> FALSE, key |-> <<>>,
     data |-> "", result |-> None, raised |-> "", stats |-> NoStats,
     found |-> <<>>, was |-> <<>>, size0 |-> 0, evicted |-> {}, dropped |-> 0,
     retried |-> FALSE]

\* a call of a method that takes the triple (namespace, identifier, params)
Call(op, namespace, identifier, params, fault) ==
    [NoCall EXCEPT !.op = op, !.ref = held, !.namespace = namespace,
                   !.identifier = identifier, !.params = params,
                   !.fault = fault]

\* the entry the backing store of the manager holds under a key, if any
Stored(w, key) ==
    LET o == w.obj
        pick(e) == <<[data |-> e.data, timestamp |-> e.timestamp, ttl |-> e.ttl]>>
    IN  IF o.cache_type = "sqlite"
        THEN IF key \in DOMAIN w.db
             THEN <<[data |-> w.db[key].data[2],
                     timestamp |-> w.db[key].timestamp, ttl |-> w.db[key].ttl]>>
             ELSE <<>>
        ELSE IF o.cache_type = "disk" /\ o.cacheKind = "diskcache"
        THEN IF key \in DiskKeys(w.disk)
             THEN pick(DiskRow(w.disk, key).value)
             ELSE <<>>
        ELSE IF key \in DOMAIN o.cache THEN pick(o.cache[key]) ELSE <<>>

\* the set that stored the entry the memory dict holds under a key, if any
Was(key) == IF key \in DOMAIN written THEN <<written[key]>> ELSE <<>>

\* the record of the sets that stored the entries a memory dict holds after
\* a call: an entry that left the dict is forgotten, a set that returned
\* True is recorded with the arguments it was called with
Remember(w0, o1, call, ttl, t) ==
    LET kept == [k \in DOMAIN w0 \cap DOMAIN o1.cache |-> w0[k]]
    IN  IF call.op = "set" /\ call.raised = "" /\ call.result = PyTrue
           /\ o1.cache_type = "memory"
        THEN Put(kept, call.key,
                 [namespace |-> call.namespace, identifier |-> call.identifier,
                  params |-> call.params, data |-> call.data, ttl |-> ttl,
                  at |-> t])
        ELSE kept

\* ------------------------------------------------------------------- tasks
\* The callers are asyncio tasks on one event loop.  A task is a call that
\* runs statement by statement; the loop gives the thread to another task
\* only where the running task suspends.
TaskIds == {1, 2}

\* a task slot with no call in it
NoTask ==
    [op |-> "none", pc |-> "none", key |-> <<>>, data |-> "", ttl |-> 0,
     ttlArg |-> <<>>, cfg |-> <<>>, ref |-> 0, sorted_items |-> <<>>,
     entry |-> <<>>, removed |-> {}, result |-> None]

\* loop: `tasks` - the calls in flight; `running` - the task that has the
\* thread, 0 when the loop may pick any; `calls` - the entries the set calls
\* have built; `last` - per key, the entry of the set that wrote last;
\* `allocs`, `inits` - how often __new__ allocated and __init__ initialised
IdleLoop ==
    [tasks |-> [t \in TaskIds |-> NoTask], running |-> 0, calls |-> {},
     last |-> EmptyMap, allocs |-> 0, inits |-> 0]

Init ==
    /\ clsInstance = 0
    /\ clsInitialized = FALSE
    /\ objs = [i \in Ids |-> BlankObj]
    /\ diskStore = <<>>
    /\ sqliteDb = EmptyMap
    /\ now = 0
    /\ HAS_DISKCACHE \in BOOLEAN
    /\ held = 0
    /\ ret = NoCall
    /\ written = EmptyMap
    /\ handed = {}
    /\ discarded = {}
    /\ loop = IdleLoop

\* a __new__ that allocates on every call
NewAlways(clsInst, numAllocated) == numAllocated + 1

\* __new__: the id of the object the construction is about
New(clsInst, numAllocated) ==
    IF clsInst = 0 THEN numAllocated + 1 ELSE clsInst

\* an object that neither the class nor a caller refers to is freed; its id
\* is not given out again
Collect(os, keep) ==
    [i \in Ids |-> IF os[i].allocated /\ i \notin keep
                   THEN [BlankObj EXCEPT !.allocated = TRUE]
                   ELSE os[i]]

\* CacheManager(config) and CacheManager.get_instance(config): __new__, then
\* __init__ on the object __new__ returned; the caller keeps the reference
Construct(cfg) ==
    LET id == New(clsInstance, NumAllocated)
        o0 == IF objs[id].allocated THEN objs[id]
              ELSE [BlankObj EXCEPT !.allocated = TRUE]
        r == InitObj(o0, cfg, clsInitialized, HAS_DISKCACHE)
        ok == r.raised = ""
    IN  /\ id \in Ids
        /\ clsInstance' = id
        /\ held' = IF ok THEN id ELSE held
        /\ objs' = Collect([objs EXCEPT ![id] = r.obj], {id, held'})
        /\ handed' = IF ok THEN handed \cup {id} ELSE handed
        /\ ret' = [NoCall EXCEPT !.op = "construct", !.ref = id, !.cfg = cfg,
                                 !.first = (handed = {}),
                                 !.retried =
                                     (/\ clsInstance # 0
                                      /\ ~IsInitialized(objs[clsInstance],
                                                        clsInitialized)),
                                 !.raised = r.raised,
                                 !.dropped =
                                     IF held' # held /\ held # 0
                                     THEN Cardinality(DOMAIN objs[held].cache)
                                     ELSE 0]
        /\ written' = IF held' = held THEN written ELSE EmptyMap
        /\ UNCHANGED <<clsInitialized, diskStore, sqliteDb, now,
                       HAS_DISKCACHE, discarded, loop>>

\* a reset that leaves the class holding its instance
ResetKeepsInstance ==
    /\ clsInitialized' = FALSE
    /\ handed' = {}
    /\ discarded' = discarded \cup ({clsInstance} \ {0})
    /\ ret' = [NoCall EXCEPT !.op = "reset"]
    /\ UNCHANGED <<clsInstance, objs, diskStore, sqliteDb, now, HAS_DISKCACHE,
                   held, written, loop>>

\* CacheManager.reset_instance()
ResetInstance ==
    /\ clsInstance' = 0
    /\ clsInitialized' = FALSE
    /\ objs' = Collect(objs, {held})
    /\ handed' = {}
    /\ discarded' = discarded \cup ({clsInstance} \ {0})
    /\ ret' = [NoCall EXCEPT !.op = "reset"]
    /\ UNCHANGED <<diskStore, sqliteDb, now, HAS_DISKCACHE, held, written,
                   loop>>

\* storage I/O can fail only where there is storage: on an open diskcache
\* store and on a sqlite connection
Faultable(o) ==
    \/ o.cache_type = "disk" /\ o.cacheKind = "diskcache"
    \/ o.cache_type = "sqlite"

\* what a method call through the held reference leaves behind
Effect(w, call, ttl) ==
    /\ held # 0
    /\ objs' = [objs EXCEPT ![held] = w.obj]
    /\ diskStore' = w.disk
    /\ sqliteDb' = w.db
    /\ ret' = call
    /\ written' = Remember(written, w.obj, call, ttl, now)
    /\ UNCHANGED <<clsInstance, clsInitialized, now, HAS_DISKCACHE, held,
                   handed, discarded, loop>>

\* the manager the callers hold, with the stores
HeldWorld == World(objs[held], diskStore, sqliteDb)

\* await cache.get(namespace, identifier, params)
Get(namespace, identifier, params, fault) ==
    /\ held # 0
    /\ fault => Faultable(objs[held])
    /\ LET r == CacheGet(HeldWorld, namespace, identifier, params, now, fault)
           key == GenerateKey(namespace, identifier, params)
           call == Call("get", namespace, <<identifier>>, params, fault)
       IN  Effect(r.w,
                  IF r.raised # ""
                  THEN [call EXCEPT !.raised = r.raised]
                  ELSE [call EXCEPT !.key = key,
                                      !.result = r.result,
                                      !.found = Stored(HeldWorld, key),
                                      !.was = Was(key)],
                  <<>>)

\* the access-order items of the keys an eviction pass removes
EvictedItems(o) ==
    LET keys == EvictedKeys(o)
    IN  {o.access_order[i] :
            i \in {j \in 1..Len(o.access_order) : o.access_order[j].k \in keys}}

\* await cache.set(namespace, identifier, data, ttl, params)
Set(namespace, identifier, data, ttl, params, fault) ==
    /\ held # 0
    /\ fault => Faultable(objs[held])
    /\ LET r == CacheSet(HeldWorld, namespace, identifier, data, ttl, params,
                         now, fault)
           key == GenerateKey(namespace, identifier, params)
           call == [Call("set", namespace, <<identifier>>, params, fault)
                       EXCEPT !.data = data, !.ttl = ttl]
           o == objs[held]
       IN  Effect(r.w,
                  IF r.raised # ""
                  THEN [call EXCEPT !.raised = r.raised]
                  ELSE [call EXCEPT !.key = key,
                                      !.result = r.result,
                                      !.found = Stored(HeldWorld, key),
                                      !.was = Was(key),
                                      !.size0 =
                                          IF o.cache_type = "memory"
                                          THEN Cardinality(DOMAIN o.cache)
                                          ELSE 0,
                                      !.evicted =
                                          IF o.cache_type = "memory"
                                             /\ AtCapacity(o)
                                          THEN EvictedItems(o)
                                          ELSE {}],
                  ttl)

\* await cache.invalidate(namespace, identifier, params)
Invalidate(namespace, identifier, params, fault) ==
    /\ held # 0
    /\ fault => Faultable(objs[held])
    /\ LET r == CacheInvalidate(HeldWorld, namespace, identifier, params, now,
                                fault)
           o == objs[held]
           call == [Call("invalidate", namespace, identifier, params, fault)
                       EXCEPT !.size0 = IF o.cache_type = "memory"
                                        THEN Cardinality(DOMAIN o.cache)
                                        ELSE 0]
       IN  Effect(r.w,
                  IF TruthyStr(identifier) /\ r.raised = ""
                  THEN LET key == GenerateKey(namespace, identifier[1], params)
                       IN  [call EXCEPT !.key = key,
                                        !.found = Stored(HeldWorld, key),
                                        !.result = r.result]
                  ELSE [call EXCEPT !.result = r.result, !.raised = r.raised],
                  <<>>)

\* await cache.get_stats()
Stats(fault) ==
    /\ held # 0
    /\ fault => Faultable(objs[held])
    /\ Effect(HeldWorld,
              [NoCall EXCEPT !.op = "stats", !.ref = held,
                             !.stats = GetStats(HeldWorld, fault)],
              <<>>)

\* time passes; no call has been made yet at the new instant
Tick ==
    /\ now < MaxTime
    /\ now' = now + 1
    /\ ret' = NoCall
    /\ UNCHANGED <<clsInstance, clsInitialized, objs, diskStore, sqliteDb,
                   HAS_DISKCACHE, held, written, handed, discarded, loop>>

\* ------------------------------------------------------------ task steps
\* an __init__ that gives up the thread between its guard and its body
SuspendsInInit(pc) == pc = "init_body"

\* a scheduler that may take the thread from a task between any two
\* statements
SuspendsAnywhere(pc) == TRUE

\* whether a task suspends where it stands: the coroutines of CacheManager
\* await only one another and never a pending future, and __new__ and
\* __init__ are plain functions, so a call once started runs to its end
Suspends(pc) == FALSE

\* the loop can run the next statement of task t
Runnable(t) ==
    /\ loop.tasks[t].op # "none"
    /\ loop.tasks[t].pc # "done"
    /\ loop.running \in {0, t}

\* the task that has the thread after task t has made a step
RunningAfter(t, tk) ==
    IF tk.pc = "done" \/ Suspends(tk.pc) THEN 0 ELSE t

\* what a set has built, as the ghost fields of the loop record it
Built(key, data, timestamp, ttl) ==
    [key |-> key, data |-> data, timestamp |-> timestamp, ttl |-> ttl]

\* a write that changes the payload of an entry already stored and keeps
\* its timestamp and ttl
WriteEntryPayloadOnly(cache, key, entry) ==
    IF key \in DOMAIN cache
    THEN [cache EXCEPT ![key].data = entry.data]
    ELSE Put(cache, key, entry)

\* self.cache[key] = entry
WriteEntry(cache, key, entry) == Put(cache, key, entry)

\* one statement of set / _set_memory / _evict_lru / _set_sqlite, run by a
\* task: the task, the manager and the database after it, the entry it
\* built and the entry it wrote, if any
SetStep(tk, o, db, t) ==
    LET same == [task |-> tk, obj |-> o, db |-> db, built |-> <<>>,
                 wrote |-> <<>>]
    IN  IF tk.pc = "call"
        THEN [same EXCEPT !.task.ttl = EffectiveTtl(o, tk.ttlArg),
                          !.task.pc = IF o.cache_type = "memory"
                                      THEN "check" ELSE "build"]
        ELSE IF tk.pc = "check"
        THEN [same EXCEPT !.task.pc = IF AtCapacity(o) THEN "sort" ELSE "build"]
        ELSE IF tk.pc = "sort"
        THEN IF o.access_order = <<>>
             THEN [same EXCEPT !.task.pc = "build"]
             ELSE LET sorted_items == SortedItems(o.access_order)
                      items_to_remove == ItemsToRemove(Len(sorted_items))
                  IN  [same EXCEPT !.task.sorted_items =
                                       SubSeq(sorted_items, 1, items_to_remove),
                                   !.task.pc = "del"]
        ELSE IF tk.pc = "del"
        THEN IF tk.sorted_items = <<>>
             THEN [same EXCEPT !.task.pc = "build"]
             ELSE LET key == Head(tk.sorted_items).k
                      o1 == [o EXCEPT !.cache = Del(@, key)]
                  IN  IF key \notin OdKeys(o.access_order)
                      THEN [same EXCEPT !.obj = o1,
                                        !.task.result = PyFalse,
                                        !.task.pc = "done"]
                      ELSE [same EXCEPT !.obj = [o1 EXCEPT !.access_order =
                                                               OdDel(@, key)],
                                        !.task.sorted_items = Tail(@),
                                        !.task.removed = @ \cup {key}]
        ELSE IF tk.pc = "build"
        THEN LET entry == IF o.cache_type = "memory"
                          THEN CacheEntry(tk.data, t, tk.ttl, tk.key,
                                          StrLen(tk.data))
                          ELSE Built(tk.key, tk.data, t, tk.ttl)
             IN  [same EXCEPT !.task.entry = <<entry>>,
                              !.task.pc = IF o.cache_type = "memory"
                                          THEN "put" ELSE "insert",
                              !.built = <<Built(tk.key, tk.data, t, tk.ttl)>>]
        ELSE IF tk.pc = "put"
        THEN [same EXCEPT !.obj.cache = WriteEntry(@, tk.key, tk.entry[1]),
                          !.task.pc = "order",
                          !.wrote = <<Built(tk.key, tk.data,
                                            tk.entry[1].timestamp, tk.ttl)>>]
        ELSE IF tk.pc = "order"
        THEN [same EXCEPT !.obj.access_order = OdPut(@, tk.key, t),
                          !.task.result = PyTrue,
                          !.task.pc = "done"]
        ELSE [same EXCEPT !.db = SetSqlite(db, tk.key, tk.data, tk.ttl,
                                           tk.entry[1].timestamp, FALSE).db,
                          !.task.result = PyTrue,
                          !.task.pc = "done",
                          !.wrote = <<Built(tk.key, tk.data,
                                            tk.entry[1].timestamp, tk.ttl)>>]

\* asyncio.create_task(cache.set(namespace, identifier, data, ttl))
SpawnSet(t, namespace, identifier, data, ttl) ==
    /\ held # 0
    /\ loop.running = 0
    /\ loop.tasks[t].op = "none"
    /\ loop' = [loop EXCEPT !.tasks[t] =
                    [NoTask EXCEPT !.op = "set", !.pc = "call",
                                   !.key = GenerateKey(namespace, identifier,
                                                       <<>>),
                                   !.data = data, !.ttlArg = ttl,
                                   !.ref = held]]
    /\ UNCHANGED <<clsInstance, clsInitialized, objs, diskStore, sqliteDb, now,
                   HAS_DISKCACHE, held, ret, written, handed, discarded>>

\* the loop runs the next statement of a set task
TaskSetStep(t) ==
    /\ Runnable(t)
    /\ loop.tasks[t].op = "set"
    /\ LET tk == loop.tasks[t]
           r == SetStep(tk, objs[tk.ref], sqliteDb, now)
       IN  /\ objs' = [objs EXCEPT ![tk.ref] = r.obj]
           /\ sqliteDb' = r.db
           /\ loop' = [loop EXCEPT
                          !.tasks[t] = r.task,
                          !.running = RunningAfter(t, r.task),
                          !.calls = IF r.built = <<>> THEN @
                                    ELSE @ \cup {r.built[1]},
                          !.last = IF r.wrote = <<>> THEN @
                                   ELSE Put(@, tk.key, r.wrote[1])]
    /\ ret' = NoCall
    /\ written' = EmptyMap
    /\ UNCHANGED <<clsInstance, clsInitialized, diskStore, now, HAS_DISKCACHE,
                   held, handed, discarded>>

\* asyncio.create_task of a coroutine that calls CacheManager(config)
SpawnConstruct(t, cfg) ==
    /\ loop.running = 0
    /\ loop.tasks[t].op = "none"
    /\ loop' = [loop EXCEPT !.tasks[t] =
                    [NoTask EXCEPT !.op = "construct", !.pc = "new_test",
                                   !.cfg = cfg]]
    /\ UNCHANGED <<clsInstance, clsInitialized, objs, diskStore, sqliteDb, now,
                   HAS_DISKCACHE, held, ret, written, handed, discarded>>

\* the loop runs the next statement of __new__ / __init__ for a task
TaskConstructStep(t) ==
    /\ Runnable(t)
    /\ loop.tasks[t].op = "construct"
    /\ LET tk == loop.tasks[t]
           id == NumAllocated + 1
           r == InitBody(objs[tk.ref], tk.cfg, HAS_DISKCACHE)
           tk1 == IF tk.pc = "new_test"
                  THEN IF clsInstance = 0
                       THEN [tk EXCEPT !.pc = "new_alloc"]
                       ELSE [tk EXCEPT !.pc = "init_test", !.ref = clsInstance]
                  ELSE IF tk.pc = "new_alloc"
                  THEN [tk EXCEPT !.pc = "init_test", !.ref = id]
                  ELSE IF tk.pc = "init_test"
                  THEN IF IsInitialized(objs[tk.ref], clsInitialized)
                       THEN [tk EXCEPT !.pc = "done"]
                       ELSE [tk EXCEPT !.pc = "init_body"]
                  ELSE [tk EXCEPT !.pc = "done"]
       IN  /\ tk.pc = "new_alloc" => id \in Ids
           /\ clsInstance' = IF tk.pc = "new_alloc" THEN id ELSE clsInstance
           /\ objs' = IF tk.pc = "new_alloc"
                      THEN [objs EXCEPT ![id] =
                               [BlankObj EXCEPT !.allocated = TRUE]]
                      ELSE IF tk.pc = "init_body"
                      THEN [objs EXCEPT ![tk.ref] = r.obj]
                      ELSE objs
           /\ held' = IF tk1.pc = "done" THEN tk.ref ELSE held
           /\ handed' = IF tk1.pc = "done" THEN handed \cup {tk.ref} ELSE handed
           /\ loop' = [loop EXCEPT
                          !.tasks[t] = tk1,
                          !.running = RunningAfter(t, tk1),
                          !.allocs = IF tk.pc = "new_alloc" THEN @ + 1 ELSE @,
                          !.inits = IF tk.pc = "init_body" THEN @ + 1 ELSE @]
    /\ ret' = NoCall
    /\ written' = EmptyMap
    /\ UNCHANGED <<clsInitialized, diskStore, sqliteDb, now, HAS_DISKCACHE,
                   discarded>>

\* ------------------------------------------------------------------- inputs
Config(type, default_ttl, max_size, loc) ==
    <<[type |-> type, default_ttl |-> default_ttl, max_size |-> max_size,
       loc |-> loc]>>

NsA == <<"a">>
NsB == <<"b">>
IdX == <<"x">>
IdY == <<"y">>

ParamsAB == << <<[k |-> "a", v |-> "1"], [k |-> "b", v |-> "2"]>> >>
ParamsBA == << <<[k |-> "b", v |-> "2"], [k |-> "a", v |-> "1"]>> >>
ParamsBad == << <<[k |-> "a", v |-> Unserializable]>> >>

\* the configurations of the full model: every backend kind, an unknown
\* kind, an unusable storage location, and no configuration at all
Configs ==
    { Config(<<"memory">>, <<1>>, <<1>>, "good"),
      Config(<<"disk">>, <<2>>, <<>>, "good"),
      Config(<<"disk">>, <<2>>, <<>>, "bad"),
      Config(<<"sqlite">>, <<2>>, <<>>, "good"),
      Config(<<"sqlite">>, <<2>>, <<>>, "bad"),
      Config(<<"redis">>, <<2>>, <<2>>, "good"),
      <<>> }

Next ==
    \/ \E cfg \in Configs : Construct(cfg)
    \/ ResetInstance
    \/ \E p \in {<<>>, ParamsBad}, f \in BOOLEAN : Get(NsA, IdX, p, f)
    \/ \E ttl \in {<<>>, <<1>>}, p \in {<<>>, ParamsBad}, f \in BOOLEAN :
          Set(NsA, IdX, "v1", ttl, p, f)
    \/ \E id \in {<<>>, <<IdX>>}, f \in BOOLEAN : Invalidate(NsA, id, <<>>, f)
    \/ \E f \in BOOLEAN : Stats(f)
    \/ Tick

Spec == Init /\ [][Next]_vars

\* ------------------------------------------------- the memory backend alone
\* A manager configured as Memory with a capacity of one or two entries,
\* used over three keys of two namespaces.
MemoryConfigs ==
    { Config(<<"memory">>, <<2>>, <<2>>, "good"),
      Config(<<"memory">>, <<1>>, <<1>>, "good") }

MemoryKeys == {<<NsA, IdX>>, <<NsA, IdY>>, <<NsB, IdX>>}

\* the payloads written under a key: one key is overwritten with another
MemoryPayloads(k) == IF k = <<NsA, IdX>> THEN {"v1", "v2"} ELSE {"v1"}

NextMemory ==
    \/ \E cfg \in MemoryConfigs : Construct(cfg)
    \/ \E k \in MemoryKeys : Get(k[1], k[2], <<>>, FALSE)
    \/ \E k \in MemoryKeys :
          \E d \in MemoryPayloads(k), ttl \in {<<>>, <<2>>} :
              Set(k[1], k[2], d, ttl, <<>>, FALSE)
    \/ \E ns \in {NsA, NsB}, id \in {<<>>, <<IdX>>} :
          Invalidate(ns, id, <<>>, FALSE)
    \/ Tick

InitMemory == Init /\ HAS_DISKCACHE

SpecMemory == InitMemory /\ [][NextMemory]_vars

\* --------------------------------------------- a memory dict of ten entries
\* A manager configured as Memory with a capacity of ten, the smallest at
\* which a tenth of the dict is a whole entry.  The caller writes eleven
\* keys, each time the first of them the dict does not hold, and reads the
\* first of them back.
EvictMaxSize == 10

EvictConfig == Config(<<"memory">>, <<>>, <<EvictMaxSize>>, "good")

EvictIds == <<"0", "1", "2", "3", "4", "5", "6", "7", "8", "9", "x">>

\* the key of the i-th identifier is the first one the dict does not hold
FirstMissing(i) ==
    /\ held # 0
    /\ GenerateKey(NsA, <<EvictIds[i]>>, <<>>) \notin DOMAIN objs[held].cache
    /\ \A j \in 1..(i - 1) :
           GenerateKey(NsA, <<EvictIds[j]>>, <<>>) \in DOMAIN objs[held].cache

NextEvict ==
    \/ Construct(EvictConfig)
    \/ \E i \in 1..Len(EvictIds) :
          FirstMissing(i) /\ Set(NsA, <<EvictIds[i]>>, "v1", <<>>, <<>>, FALSE)
    \/ Get(NsA, <<EvictIds[1]>>, <<>>, FALSE)
    \/ Tick

SpecEvict == InitMemory /\ [][NextEvict]_vars

\* ------------------------------------------ a memory dict of twenty entries
\* A manager configured as Memory with a capacity of twenty, the smallest
\* at which a tenth of the dict is more than one entry, or with a capacity
\* of two.  The caller writes twenty-one keys once, in their order, until a
\* set has run an eviction pass.
PassMaxSize == 20

PassConfigs ==
    { Config(<<"memory">>, <<>>, <<PassMaxSize>>, "good"),
      Config(<<"memory">>, <<>>, <<2>>, "good") }

PassIds ==
    <<"0", "1", "2", "3", "4", "5", "6", "7", "8", "9",
      "a", "b", "c", "d", "e", "f", "g", "h", "i", "j", "k">>

\* the dict holds the keys of the identifiers before the i-th and no other
NextToWrite(i) ==
    /\ held # 0
    /\ DOMAIN objs[held].cache =
          {GenerateKey(NsA, <<PassIds[j]>>, <<>>) : j \in 1..(i - 1)}

NextPass ==
    \/ \E cfg \in PassConfigs : Construct(cfg)
    \/ \E i \in 1..Len(PassIds) :
          NextToWrite(i)
              /\ Set(NsA, <<PassIds[i]>>, "v1", <<>>, <<>>, FALSE)
    \/ Tick

SpecPass == InitMemory /\ [][NextPass]_vars

\* ------------------------------------------------- the three backends alike
\* One manager of each backend kind with working storage, used over two
\* keys of one namespace, with storage failures and with params that json
\* cannot encode.
StoreConfigs ==
    { Config(<<"memory">>, <<2>>, <<2>>, "good"),
      Config(<<"disk">>, <<2>>, <<>>, "good"),
      Config(<<"sqlite">>, <<2>>, <<>>, "good") }

NextStores ==
    \/ \E cfg \in StoreConfigs : Construct(cfg)
    \/ \E id \in {IdX, IdY}, f \in BOOLEAN : Get(NsA, id, <<>>, f)
    \/ \E id \in {IdX, IdY}, ttl \in {<<>>, <<1>>}, f \in BOOLEAN :
          Set(NsA, id, "v1", ttl, <<>>, f)
    \/ \E id \in {<<>>, <<IdX>>}, p \in {<<>>, ParamsBad}, f \in BOOLEAN :
          Invalidate(NsA, id, p, f)
    \/ \E f \in BOOLEAN : Stats(f)
    \/ Tick

SpecStores == InitMemory /\ [][NextStores]_vars

\* ------------------------------------------------------ the keys of triples
\* A Memory manager used through triples whose namespace or identifier holds
\* a colon, and whose params are the same dict written in two orders.
NsAB == <<"a", ":", "b">>
IdBX == <<"b", ":", "x">>

KeysConfig == Config(<<"memory">>, <<2>>, <<2>>, "good")

Triples ==
    { <<NsA, IdX, <<>> >>, <<NsAB, IdX, <<>> >>, <<NsA, IdBX, <<>> >>,
      <<NsA, IdX, ParamsAB>>, <<NsA, IdX, ParamsBA>> }

NextKeys ==
    \/ Construct(KeysConfig)
    \/ \E tr \in Triples : Get(tr[1], tr[2], tr[3], FALSE)
    \/ \E tr \in Triples : Set(tr[1], tr[2], "v1", <<>>, tr[3], FALSE)
    \/ \E ns \in {NsA, NsAB} : Invalidate(ns, <<>>, <<>>, FALSE)
    \/ Tick

SpecKeys == InitMemory /\ [][NextKeys]_vars

\* ---------------------------------------------------------- concurrent sets
\* A Memory manager of capacity two or an Embedded-DB manager, filled by
\* plain calls, then written by two tasks at once.
TaskConfigs ==
    { Config(<<"memory">>, <<2>>, <<2>>, "good"),
      Config(<<"sqlite">>, <<2>>, <<>>, "good") }

NextSetTasks ==
    \/ \E cfg \in TaskConfigs : loop = IdleLoop /\ Construct(cfg)
    \/ \E id \in {IdX, IdY} :
          loop = IdleLoop /\ Set(NsA, id, "v1", <<>>, <<>>, FALSE)
    \/ \E t \in TaskIds, id \in {IdX, IdY}, d \in {"v1", "v2"},
          ttl \in {<<>>, <<1>>} : SpawnSet(t, NsA, id, d, ttl)
    \/ \E t \in TaskIds : TaskSetStep(t)
    \/ Tick

SpecSetTasks == InitMemory /\ [][NextSetTasks]_vars

\* ------------------------------------------------------------- overwrites
\* A Memory manager of capacity two or an Embedded-DB manager whose keys are
\* written again with another payload and another ttl, before and after
\* the first entry has expired.
NextUpsert ==
    \/ \E cfg \in TaskConfigs : Construct(cfg)
    \/ \E id \in {IdX, IdY}, f \in BOOLEAN : Get(NsA, id, <<>>, f)
    \/ \E d \in {"v1", "v2"}, ttl \in {<<>>, <<1>>}, f \in BOOLEAN :
          Set(NsA, IdX, d, ttl, <<>>, f)
    \/ Set(NsA, IdY, "v1", <<>>, <<>>, FALSE)
    \/ Tick

SpecUpsert == InitMemory /\ [][NextUpsert]_vars

\* ------------------------------------------------- namespaces that LIKE folds
\* An Embedded-DB or a Memory manager used over two namespaces that differ
\* only in the case of a letter.
NsUpper == <<"A">>

LikeConfigs ==
    { Config(<<"sqlite">>, <<2>>, <<>>, "good"),
      Config(<<"memory">>, <<2>>, <<>>, "good") }

NextLike ==
    \/ \E cfg \in LikeConfigs : Construct(cfg)
    \/ \E ns \in {NsA, NsUpper} : Get(ns, IdX, <<>>, FALSE)
    \/ \E ns \in {NsA, NsUpper}, ttl \in {<<>>, <<1>>} :
          Set(ns, IdX, "v1", ttl, <<>>, FALSE)
    \/ \E ns \in {NsA, NsUpper}, id \in {<<>>, <<IdX>>} :
          Invalidate(ns, id, <<>>, FALSE)
    \/ Tick

SpecLike == InitMemory /\ [][NextLike]_vars

\* ------------------------------------------------------------ sets that fail
\* One manager of each backend kind, written over two keys with a payload
\* that can be printed and one that cannot, with storage failures.
NextFailedSet ==
    \/ \E cfg \in StoreConfigs : Construct(cfg)
    \/ \E id \in {IdX, IdY} : Get(NsA, id, <<>>, FALSE)
    \/ \E id \in {IdX, IdY}, d \in {"v1", Unprintable}, f \in BOOLEAN :
          Set(NsA, id, d, <<>>, <<>>, f)
    \/ Tick

SpecFailedSet == Init /\ [][NextFailedSet]_vars

\* -------------------------------------------------------------- a ttl of 0
\* A Memory manager with a default ttl of one or two seconds or an
\* Embedded-DB manager, written with a ttl of 0 and with a ttl of 1.
ZeroConfigs ==
    MemoryConfigs \cup {Config(<<"sqlite">>, <<2>>, <<>>, "good")}

NextZero ==
    \/ \E cfg \in ZeroConfigs : Construct(cfg)
    \/ \E id \in {IdX, IdY} : Get(NsA, id, <<>>, FALSE)
    \/ \E id \in {IdX, IdY}, ttl \in {<<0>>, <<1>>} :
          Set(NsA, id, "v1", ttl, <<>>, FALSE)
    \/ Tick

SpecZero == InitMemory /\ [][NextZero]_vars

\* ------------------------------------------------------ an empty identifier
\* An Embedded-DB or a Memory manager with room for every key, used with
\* the empty string as an identifier beside an ordinary one, in two
\* namespaces.
IdEmpty == <<>>

EmptyIdKeys == {<<NsA, IdEmpty>>, <<NsA, IdX>>, <<NsB, IdX>>}

NextEmptyId ==
    \/ \E cfg \in LikeConfigs : Construct(cfg)
    \/ \E k \in EmptyIdKeys : Get(k[1], k[2], <<>>, FALSE)
    \/ \E k \in EmptyIdKeys : Set(k[1], k[2], "v1", <<>>, <<>>, FALSE)
    \/ \E id \in {<<IdEmpty>>, <<IdX>>} : Invalidate(NsA, id, <<>>, FALSE)
    \/ Tick

SpecEmptyId == InitMemory /\ [][NextEmptyId]_vars

\* ------------------------------------------------ constructions that raise
\* The manager is constructed with storage locations that cannot be opened
\* and with configurations that can, with and without diskcache, and used.
RetryConfigs ==
    { Config(<<"sqlite">>, <<2>>, <<>>, "bad"),
      Config(<<"disk">>, <<2>>, <<>>, "bad"),
      Config(<<"sqlite">>, <<2>>, <<>>, "good"),
      Config(<<"memory">>, <<1>>, <<2>>, "good"),
      <<>> }

NextRetry ==
    \/ \E cfg \in RetryConfigs : Construct(cfg)
    \/ ResetInstance
    \/ Get(NsA, IdX, <<>>, FALSE)
    \/ Set(NsA, IdX, "v1", <<>>, <<>>, FALSE)
    \/ Tick

SpecRetry == Init /\ [][NextRetry]_vars

\* -------------------------------------------------- concurrent constructions
\* Two tasks construct the manager at once while no instance exists; a
\* caller that has its manager writes to it.
NextNewTasks ==
    \/ \E t \in TaskIds, cfg \in MemoryConfigs : SpawnConstruct(t, cfg)
    \/ \E t \in TaskIds : TaskConstructStep(t)
    \/ loop.running = 0 /\ Set(NsA, IdX, "v1", <<>>, <<>>, FALSE)
    \/ loop.running = 0 /\ Get(NsA, IdX, <<>>, FALSE)
    \/ Tick

SpecNewTasks == InitMemory /\ [][NextNewTasks]_vars

\* ================================================================== claims
\* the manager the last call went through
Called == objs[ret.ref]

\* a call that returned (did not raise)
Returned(op) == ret.op = op /\ ret.raised = ""

\* ---- C1
\* C1: on the Memory backend, a get of a key whose entry was stored by
\* set(ns, id, v, ttl=T) and has stayed in the dict since returns v whenever
\* the time elapsed since that set is < T.
C1_RoundTrip ==
    (/\ Returned("get")
     /\ Called.cache_type = "memory"
     /\ ret.was # <<>>
     /\ ret.was[1].ttl # <<>>
     /\ now - ret.was[1].at < ret.was[1].ttl[1])
    => ret.result = ret.was[1].data

\* a get, one second after a set with ttl=2, returns what was set
C1_Witness ==
    /\ Returned("get")
    /\ Called.cache_type = "memory"
    /\ ret.was # <<>>
    /\ ret.was[1].ttl = <<2>>
    /\ now - ret.was[1].at = 1
    /\ ret.result = ret.was[1].data

\* ---- C2
\* C2: on every backend, a get that returns a payload returns the payload of
\* the entry stored under the key, and that entry is not expired
\* (not now > createdAt + ttlSeconds); over an expired entry get returns
\* absent.
C2_NoExpiredPayload ==
    Returned("get") =>
        /\ ret.result # None =>
              /\ ret.found # <<>>
              /\ ret.found[1].data = ret.result
              /\ ~(now > ret.found[1].timestamp + ret.found[1].ttl)
        /\ (ret.found # <<>> /\ now > ret.found[1].timestamp + ret.found[1].ttl)
              => ret.result = None

\* a get met an expired entry and returned absent
C2_Witness ==
    /\ Returned("get")
    /\ ret.found # <<>>
    /\ now > ret.found[1].timestamp + ret.found[1].ttl
    /\ ret.result = None

\* ---- C3
\* C3: the constructions that return between two resets all return the same
\* instance, the one the class holds, so every caller's reference is to the
\* one manager.
C3_SameInstance ==
    /\ Cardinality(handed) <= 1
    /\ handed \subseteq {clsInstance}
    /\ Returned("construct") => (ret.ref = clsInstance /\ held = ret.ref)

\* a second construction, with another configuration, returned the instance
\* of the first
C3_Witness ==
    /\ Returned("construct")
    /\ ~ret.first
    /\ ret.cfg # <<>>
    /\ ret.cfg[1].type # <<Called.cache_type>>
    /\ handed = {ret.ref}

\* ---- C4
\* C4: a construction made while the class holds an instance that a
\* construction has already returned changes nothing: the instance, its
\* backend kind, default_ttl, max_size, every stored entry and both stores
\* stay as they were, and the construction returns that instance.
C4_LaterConstructionIgnored ==
    [][(ret'.op = "construct" /\ clsInstance \in handed)
        => /\ clsInstance' = clsInstance
           /\ objs' = objs
           /\ diskStore' = diskStore
           /\ sqliteDb' = sqliteDb
           /\ ret'.raised = ""
           /\ ret'.ref = clsInstance]_vars

\* a later construction with another backend kind and default_ttl returned a
\* manager that still holds an entry
C4_Witness ==
    /\ Returned("construct")
    /\ ~ret.first
    /\ ret.cfg # <<>>
    /\ ret.cfg[1].type # <<Called.cache_type>>
    /\ ret.cfg[1].default_ttl # <<Called.default_ttl>>
    /\ DOMAIN Called.cache # {}

\* ---- C5
\* what __init__ makes of the configuration passed to the construction
ConfiguredFrom(o, cfg) ==
    LET config == IF cfg = <<>> THEN NoneConfig ELSE cfg[1]
        type == IF config.type = <<>> THEN "memory" ELSE config.type[1]
    IN  /\ o.initialized
        /\ o.cache_type = type
        /\ o.default_ttl = (IF config.default_ttl = <<>> THEN DefaultTtl
                            ELSE config.default_ttl[1])
        /\ (type \notin {"disk", "sqlite"}) =>
              o.max_size = (IF config.max_size = <<>> THEN DefaultMaxSize
                            ELSE config.max_size[1])

\* the first construction to return after a reset
FirstAfterReset == Returned("construct") /\ ret.first /\ discarded # {}

\* C5 as stated: the first construction to return after reset_instance
\* returns an instance distinct from every discarded one, configured from the
\* configuration passed to it and holding no entries on any backend.
C5_FreshAndEmpty ==
    FirstAfterReset =>
        /\ ret.ref \notin discarded
        /\ ConfiguredFrom(Called, ret.cfg)
        /\ DOMAIN Called.cache = {}
        /\ Called.cache_type = "disk" => diskStore = <<>>
        /\ Called.cache_type = "sqlite" => DOMAIN sqliteDb = {}

\* C5 amended: the first construction to return after reset_instance returns
\* an instance distinct from every discarded one, configured from the
\* configuration passed to it and holding no entries in process memory (the
\* entries persisted by the Disk and Embedded-DB stores outlive the reset).
C5_FreshInstance ==
    FirstAfterReset =>
        /\ ret.ref \notin discarded
        /\ ConfiguredFrom(Called, ret.cfg)
        /\ DOMAIN Called.cache = {}
        /\ Called.access_order = <<>>

\* a construction after a reset returned a Memory manager while the manager
\* discarded by the reset had held an entry
C5_Witness ==
    /\ FirstAfterReset
    /\ Called.cache_type = "memory"
    /\ ret.ref \notin discarded
    /\ ret.dropped > 0
    /\ DOMAIN Called.cache = {}

\* ---- C6
\* C6: get never raises to the caller, whatever the namespace, identifier,
\* params and backend fault.
C6_GetNeverRaises == ret.op = "get" => ret.raised = ""

\* ---- C7
\* C7: set never raises to the caller, whatever the namespace, identifier,
\* value, ttl and params: it returns.
C7_SetNeverRaises == ret.op = "set" => ret.raised = ""

\* ---- C8
\* C8: in every configuration the result of a set that returns is the
\* boolean true or false, and it is true only when the entry is stored.
C8_SetReturnsBool ==
    Returned("set") =>
        /\ ret.result \in {PyTrue, PyFalse}
        /\ ret.result = PyTrue =>
              LET e == Stored(World(Called, diskStore, sqliteDb), ret.key)
              IN  e # <<>> /\ e[1].data = ret.data /\ e[1].timestamp = now

\* ---- C9
\* the manager was configured as Disk and fell back to a dict
FellBack(o) == o.initialized /\ o.cache_type = "disk" /\ o.cacheKind = "dict"

\* C9: on a manager that fell back from Disk to Memory, set returns true and
\* stores the value in the dict, where a following get finds it.
C9_FallbackWorks ==
    (Returned("set") /\ FellBack(Called)) =>
        /\ ret.result = PyTrue
        /\ ret.key \in DOMAIN Called.cache
        /\ Called.cache[ret.key].data = ret.data

\* ---- C10
\* C10: on the Memory backend with max_size >= 1 the dict never holds more
\* than max_size entries.
C10_WithinCapacity ==
    \A i \in Ids :
        (objs[i].initialized /\ objs[i].cache_type = "memory"
         /\ objs[i].max_size >= 1)
        => Cardinality(DOMAIN objs[i].cache) <= objs[i].max_size

\* a set into a full dict of two entries evicted and left two entries
C10_Witness ==
    /\ Returned("set")
    /\ Called.cache_type = "memory"
    /\ Called.max_size = 2
    /\ ret.evicted # {}
    /\ ret.found = <<>>
    /\ Cardinality(DOMAIN Called.cache) = 2

\* ---- C11
\* C11: when the memory dict holds exactly max_size entries and a set
\* inserts a key it does not hold, the dict has at most
\* max_size - floor(max_size / 10) + 1 entries after the set.
C11_CountAfterEviction ==
    (/\ Returned("set")
     /\ Called.cache_type = "memory"
     /\ ret.found = <<>>
     /\ ret.size0 = Called.max_size)
    => Cardinality(DOMAIN Called.cache)
           <= Called.max_size - (Called.max_size \div 10) + 1

\* a set of a new key into a full dict of at least ten entries, after which
\* the count sits on the bound
C11_Witness ==
    /\ Returned("set")
    /\ Called.cache_type = "memory"
    /\ ret.found = <<>>
    /\ ret.size0 = Called.max_size
    /\ Called.max_size \div 10 >= 1
    /\ Cardinality(DOMAIN Called.cache)
           = Called.max_size - (Called.max_size \div 10) + 1

\* ---- C12
\* the access-order items of the entries that came through the eviction
\* pass of the last set: every item but those of the key the set wrote
Survivors ==
    {Called.access_order[i] :
        i \in {j \in 1..Len(Called.access_order) :
                  Called.access_order[j].k # ret.key}}

\* C12: the entries an eviction pass removes are the least recently accessed
\* ones: no entry that survives the pass has a last-access time strictly
\* smaller than that of an entry the pass removed.
C12_EvictsLeastRecent ==
    (Returned("set") /\ Called.cache_type = "memory")
    => \A e \in ret.evicted : \A s \in Survivors : s.t >= e.t

\* an eviction pass that removed a key written after the first key, which
\* had been read since and survives with a later access time
C12_Witness ==
    /\ Returned("set")
    /\ Called.cache_type = "memory"
    /\ \E e \in ret.evicted : \E s \in Survivors :
          /\ s.k = GenerateKey(NsA, <<EvictIds[1]>>, <<>>)
          /\ e.k # s.k
          /\ s.t > e.t

\* ---- C13
\* the last call was a set on a memory dict that ran an eviction pass
EvictingSet(call, o) ==
    /\ call.op = "set"
    /\ call.raised = ""
    /\ o.cache_type = "memory"
    /\ call.evicted # {}

\* C13: after a Memory set that triggers eviction the key just set is
\* present with the value set, and a get of that key that follows it
\* immediately returns that value.
C13_NewestPresent ==
    [][/\ EvictingSet(ret', objs'[ret'.ref])
          => /\ ret'.key \in DOMAIN objs'[ret'.ref].cache
             /\ objs'[ret'.ref].cache[ret'.key].data = ret'.data
             /\ ret'.key \in OdKeys(objs'[ret'.ref].access_order)
       /\ (/\ EvictingSet(ret, objs[ret.ref])
           /\ ret'.op = "get"
           /\ ret'.ref = ret.ref
           /\ ret'.key = ret.key)
          => ret'.result = ret.data]_vars

\* a set that evicted another key from a full dict of two and left its own
\* key in it
C13_Witness ==
    /\ EvictingSet(ret, Called)
    /\ Called.max_size = 2
    /\ ret.key \in DOMAIN Called.cache
    /\ \E e \in ret.evicted : e.k # ret.key

\* ---- C14
\* the rows of a diskcache store that are not those of a key
OtherRows(disk, key) == SelectSeq(disk, LAMBDA row : row.key # key)

\* the step of an invalidate with an identifier took the entry of its key,
\* and on Memory the access-order record, out of the store and nothing else
RemovedOneKey ==
    LET key == GenerateKey(ret'.namespace, ret'.identifier[1], ret'.params)
        o == objs[ret'.ref]
        o1 == objs'[ret'.ref]
    IN  /\ o.cache_type = "memory"
           => /\ o1.cache = Del(o.cache, key)
              /\ o1.access_order = OdDel(o.access_order, key)
        /\ o.cache_type = "sqlite"
           => sqliteDb' = Del(sqliteDb, key)
        /\ o.cache_type = "disk"
           => /\ ~DiskContains(diskStore', key, now)
              /\ OtherRows(diskStore', key) = OtherRows(diskStore, key)

InNamespace(keys, namespace) ==
    {k \in keys : StartsWith(k, namespace \o <<Colon>>)}

C16_NamespaceIsolation ==
    [][(/\ ret'.op = "invalidate"
        /\ ret'.raised = ""
        /\ ~TruthyStr(ret'.identifier)
        /\ objs'[ret'.ref].cache_type = "memory")
       => \A k \in DOMAIN written :
              written[k].namespace # ret'.namespace
              => /\ k \in DOMAIN objs'[ret'.ref].cache
                 /\ objs'[ret'.ref].cache[k] = objs[ret'.ref].cache[k]]_vars

\* ---- C17
\* the params of two calls are the same dict, whatever the order of its
\* items; no params and an empty dict are the same
SameParams(p, q) ==
    LET items(x) == IF x = <<>> THEN {} ELSE {x[1][i] : i \in 1..Len(x[1])}
    IN  items(p) = items(q)

SameTriple(a, b) ==
    /\ a.namespace = b.namespace
    /\ a.identifier = b.identifier
    /\ SameParams(a.params, b.params)

\* C17: an entry set under one (namespace, identifier, params) triple is
\* never returned through a different triple.
C17_DistinctTriplesDistinctKeys ==
    (/\ Returned("get")
     /\ ret.result # None
     /\ ret.was # <<>>)
    => SameTriple(ret.was[1], ret)

\* ---- C18
\* C18: the key of a triple does not depend on the order of the items of
\* params: a get with the params of a set, in any order, looks under the key
\* the set wrote and returns its value.
C18_OrderIndependent ==
    Returned("get")
    => \A k \in DOMAIN written :
           (SameTriple(written[k], ret) /\ now <= written[k].at + Called.default_ttl)
           => /\ k = ret.key
              /\ ret.result = written[k].data

\* a get that returned the value a set had stored with the same params in
\* another order
C18_Witness ==
    /\ Returned("get")
    /\ ret.was # <<>>
    /\ ret.params # <<>>
    /\ ret.was[1].params # ret.params
    /\ SameTriple(ret.was[1], ret)
    /\ ret.result = ret.was[1].data

\* ---- C19
\* C19: a set without ttl stores the entry with the default_ttl of the
\* manager, so that a get returns the entry up to default_ttl after the set
\* and not after.
C19_DefaultTtl ==
    /\ (Returned("set") /\ ret.result = PyTrue /\ ret.ttl = <<>>)
       => /\ Stored(HeldWorld, ret.key) # <<>>
          /\ Stored(HeldWorld, ret.key)[1].ttl = Called.default_ttl
    /\ (/\ Returned("get")
        /\ Called.cache_type = "memory"
        /\ ret.was # <<>>
        /\ ret.was[1].ttl = <<>>)
       => (ret.result = ret.was[1].data
              <=> now <= ret.was[1].at + Called.default_ttl)

\* a get, default_ttl after a set without ttl, that still returned the entry
\* of a manager whose default_ttl is not the built-in one
C19_Witness ==
    /\ Returned("get")
    /\ Called.cache_type = "memory"
    /\ ret.was # <<>>
    /\ ret.was[1].ttl = <<>>
    /\ Called.default_ttl # DefaultTtl
    /\ now = ret.was[1].at + Called.default_ttl
    /\ ret.result = ret.was[1].data

\* ---- C20
\* the last call was a first construction whose configuration names the
\* given backend kind and an unusable storage location
BadLocation(type) ==
    /\ ret.op = "construct"
    /\ ret.first
    /\ ret.cfg # <<>>
    /\ ret.cfg[1].type = <<type>>
    /\ ret.cfg[1].loc = "bad"

\* the construction raised and left the manager uninitialised, with no
\* store of any kind set up and no reference handed to the caller
Aborted ==
    /\ ret.raised # ""
    /\ ~Called.initialized
    /\ Called.cacheKind = "unset"
    /\ ~Called.conn
    /\ ret.ref \notin handed

\* C20 as stated: a first construction on an unusable Embedded-DB or Disk
\* storage location raises and leaves the manager uninitialised, without
\* degrading to another backend.
C20_BadLocationAlwaysAborts ==
    (BadLocation("sqlite") \/ BadLocation("disk")) => Aborted

\* C20: a first construction on an unusable Embedded-DB storage location,
\* or on an unusable Disk storage location when the diskcache library is
\* there, raises and leaves the manager uninitialised, without degrading to
\* another backend.
C20_BadLocationAborts ==
    (BadLocation("sqlite") \/ (BadLocation("disk") /\ HAS_DISKCACHE))
    => Aborted

\* a first construction on an unusable Embedded-DB location that raised
C20_Witness ==
    /\ BadLocation("sqlite")
    /\ ret.raised = "OperationalError"
    /\ ~Called.initialized

\* ---- C21
\* C21: invalidate and get_stats never raise to the caller, whatever the
\* input and whatever the storage does.
C21_InvalidateStatsNeverRaise ==
    ret.op \in {"invalidate", "stats"} => ret.raised = ""

\* ---- C22
\* the entry the held manager stores under a key, as a set builds it
StoredBuilt(k) ==
    LET e == Stored(HeldWorld, k)[1]
    IN  Built(k, e.data, e.timestamp, e.ttl)

\* C22: under every interleaving of the set tasks, the entry stored under a
\* key the tasks write carries the payload, the creation time and the ttl of
\* one single set call, and it is the entry of the call that wrote last.
C22_OneCallsEntry ==
    held # 0
    => \A k \in DOMAIN loop.last :
           Stored(HeldWorld, k) # <<>>
           => /\ StoredBuilt(k) \in loop.calls
              /\ StoredBuilt(k) = loop.last[k]

\* two tasks have set the same key to different payloads at different
\* instants, and the store holds the entry of the one that wrote last
C22_Witness ==
    /\ held # 0
    /\ \A t \in TaskIds : loop.tasks[t].op = "set" /\ loop.tasks[t].pc = "done"
    /\ loop.tasks[1].key = loop.tasks[2].key
    /\ loop.tasks[1].data # loop.tasks[2].data
    /\ loop.tasks[1].entry[1].timestamp # loop.tasks[2].entry[1].timestamp
    /\ Stored(HeldWorld, loop.tasks[1].key) # <<>>
    /\ StoredBuilt(loop.tasks[1].key) = loop.last[loop.tasks[1].key]

\* ---- C23
\* no task stands between two statements of a call
Quiescent == \A t \in TaskIds : loop.tasks[t].pc \in {"none", "call", "done"}

\* C23: under every interleaving of Memory set tasks that run eviction
\* passes, no pass fails, every such set returns True, and once the calls
\* have finished the access-order map tracks exactly the stored keys.
C23_ConcurrentEviction ==
    (held # 0 /\ objs[held].cache_type = "memory")
    => /\ \A t \in TaskIds :
              (loop.tasks[t].op = "set" /\ loop.tasks[t].pc = "done")
              => loop.tasks[t].result = PyTrue
       /\ Quiescent
          => OdKeys(objs[held].access_order) = DOMAIN objs[held].cache

\* two set tasks have each run an eviction pass on a full dict and returned
C23_Witness ==
    /\ held # 0
    /\ objs[held].cache_type = "memory"
    /\ \A t \in TaskIds :
          /\ loop.tasks[t].op = "set"
          /\ loop.tasks[t].pc = "done"
          /\ loop.tasks[t].removed # {}
          /\ loop.tasks[t].result = PyTrue
    /\ OdKeys(objs[held].access_order) = DOMAIN objs[held].cache

\* ---- C24
\* the construction tasks that have returned
Constructed ==
    {t \in TaskIds : loop.tasks[t].op = "construct" /\ loop.tasks[t].pc = "done"}

\* C24: when tasks construct CacheManager concurrently while no instance
\* exists, one instance is allocated, every task gets that instance, and
\* its backend is initialised once, so that no entry already set is lost
\* to a second initialisation.
C24_OneInstanceOneInit ==
    /\ loop.allocs <= 1
    /\ loop.inits <= 1
    /\ \A t1 \in Constructed, t2 \in Constructed :
          loop.tasks[t1].ref = loop.tasks[t2].ref

\* two tasks have constructed the manager with different configurations,
\* both hold the one instance, and an entry set through it is still there
C24_Witness ==
    /\ Constructed = TaskIds
    /\ loop.tasks[1].cfg # loop.tasks[2].cfg
    /\ loop.tasks[1].ref = loop.tasks[2].ref
    /\ loop.allocs = 1
    /\ loop.inits = 1
    /\ DOMAIN objs[held].cache # {}

\* ---- C25
\* C25: get_stats on a Memory manager reports the backend kind, the default
\* ttl, a size equal to the number of entries stored and a max_size equal
\* to the capacity of the manager, and changes no stored entry and no
\* access-order record.
C25_MemoryStats ==
    [][(ret'.op = "stats" /\ objs[ret'.ref].cache_type = "memory")
       => LET o == objs[ret'.ref]
          IN  /\ ret'.raised = ""
              /\ ret'.stats.type = <<"memory">>
              /\ ret'.stats.default_ttl = <<o.default_ttl>>
              /\ ret'.stats.size = <<Cardinality(DOMAIN o.cache)>>
              /\ ret'.stats.max_size = <<o.max_size>>
              /\ ret'.stats.error = <<>>
              /\ objs'[ret'.ref].cache = o.cache
              /\ objs'[ret'.ref].access_order = o.access_order]_vars

\* get_stats on a Memory manager that holds an entry and has room for more
C25_Witness ==
    /\ Returned("stats")
    /\ Called.cache_type = "memory"
    /\ ret.stats.size = <<1>>
    /\ ret.stats.max_size = <<2>>
    /\ ret.stats.default_ttl = <<Called.default_ttl>>
    /\ DOMAIN Called.cache # {}

\* ---- C26
\* the number of entries the backing store of the manager holds, as get_stats
\* counts them
StoredCount(w) == GetStats(w, FALSE).size[1]

\* the manager the callers hold with the stores, after the step
HeldWorldAfter == World(objs'[held], diskStore', sqliteDb')

\* a get whose lookup did not fail and whose key held an expired entry
ExpiredGet(call, t) ==
    /\ call.op = "get"
    /\ call.raised = ""
    /\ ~call.fault
    /\ call.found # <<>>
    /\ IsExpired(call.found[1], t)

\* C26: on every backend a get of a key whose stored entry is expired
\* returns absent and deletes the entry (with its access-order record on
\* Memory): the stored entry count drops by one and a second get finds the
\* key absent.
C26_ExpiredGetDeletes ==
    [][ExpiredGet(ret', now)
       => /\ ret'.result = None
          /\ Stored(HeldWorldAfter, ret'.key) = <<>>
          /\ ret'.key \notin OdKeys(objs'[held].access_order)
          /\ StoredCount(HeldWorldAfter) = StoredCount(HeldWorld) - 1
          /\ CacheGet(HeldWorldAfter, ret'.namespace, ret'.identifier[1],
                      ret'.params, now, FALSE).result = None]_vars

\* ---- C27
\* the entries of the memory dict of the held manager that are expired
ExpiredKeys(o, t) == {k \in DOMAIN o.cache : IsExpired(o.cache[k], t)}

\* the call covers the key: a get or a set of the key, a set whose eviction
\* pass removed it, an invalidate of the key or of its namespace
Covers(call, k) ==
    \/ call.op = "get" /\ call.key = k
    \/ call.op = "set" /\ (call.key = k \/ k \in {it.k : it \in call.evicted})
    \/ /\ call.op = "invalidate"
       /\ \/ call.key = k
          \/ /\ ~TruthyStr(call.identifier)
             /\ StartsWith(k, call.namespace \o <<Colon>>)

\* C27: an expired entry of a Memory manager stays stored, unchanged, through
\* every step (a call aimed at another key, get_stats, the passage of time)
\* except a get of its key, an invalidate covering it, a set of its key and
\* a set whose eviction pass removes it; get_stats counts it with the others.
C27_LazyPurge ==
    [][(held # 0 /\ held' = held /\ objs[held].cache_type = "memory")
       => /\ \A k \in ExpiredKeys(objs[held], now) :
                \/ /\ k \in DOMAIN objs'[held].cache
                   /\ objs'[held].cache[k] = objs[held].cache[k]
                \/ Covers(ret', k)
          /\ ret'.op = "stats"
                => ret'.stats.size = <<Cardinality(DOMAIN objs[held].cache)>>]_vars

\* a get that hit a live entry while the dict holds an expired entry under
\* another key
C27_Witness ==
    /\ Returned("get")
    /\ Called.cache_type = "memory"
    /\ ret.result # None
    /\ ExpiredKeys(Called, now) \ {ret.key} # {}

\* ---- C28
\* the access-order items and the rows of the keys other than k
OtherItems(od, k) == SelectSeq(od, LAMBDA it : it.k # k)

OtherDiskRows(disk, k) == SelectSeq(disk, LAMBDA row : row.key # k)

\* everything stored under the keys other than k is the same in both worlds
SameOthers(w1, w2, k) ==
    /\ Del(w2.obj.cache, k) = Del(w1.obj.cache, k)
    /\ OtherItems(w2.obj.access_order, k) = OtherItems(w1.obj.access_order, k)
    /\ Del(w2.db, k) = Del(w1.db, k)
    /\ OtherDiskRows(w2.disk, k) = OtherDiskRows(w1.disk, k)

\* C28: a get changes no entry's payload, creation time or ttl.  A get that
\* raises or meets no entry under its key changes nothing; a get that meets
\* a live entry leaves every entry as it is and changes at most the
\* access-order time of its key; a get that meets an expired entry leaves
\* it or removes it and touches nothing stored under another key.
C28_GetFrame ==
    [][(ret'.op = "get" /\ held' = held)
       => LET k == ret'.key
              found == ret'.found
          IN  IF ret'.raised # "" \/ found = <<>>
              THEN HeldWorldAfter = HeldWorld
              ELSE /\ SameOthers(HeldWorld, HeldWorldAfter, k)
                   /\ Stored(HeldWorldAfter, k) \in {found, <<>>}
                   /\ ~IsExpired(found[1], now)
                         => /\ Stored(HeldWorldAfter, k) = found
                            /\ objs'[held].cache = objs[held].cache
                            /\ OdKeys(objs'[held].access_order)
                                  = OdKeys(objs[held].access_order)
                            /\ diskStore' = diskStore
                            /\ sqliteDb' = sqliteDb]_vars

\* a get that hit, at a later instant, an entry of a Memory manager: the
\* access-order time of the key is the instant of the get, the creation
\* time of the entry is still the instant of the set
C28_Witness ==
    /\ Returned("get")
    /\ Called.cache_type = "memory"
    /\ ret.result # None
    /\ Called.cache[ret.key].timestamp < now
    /\ [k |-> ret.key, t |-> now] \in
          {Called.access_order[i] : i \in 1..Len(Called.access_order)}
    /\ DOMAIN Called.cache # {ret.key}

\* ---- C29
\* the step is a set on the Memory manager the callers hold
MemorySetStep ==
    /\ ret'.op = "set"
    /\ ret'.raised = ""
    /\ held' = held
    /\ objs[held].cache_type = "memory"

\* the keys other than the key of the set whose entries the step removed
RemovedOthers ==
    (DOMAIN objs[held].cache \ DOMAIN objs'[held].cache) \ {ret'.key}

\* C29: a Memory set removes another key's entry exactly when it would make
\* the entry count exceed max_size, that is when the dict is full and the
\* key is new; a set that overwrites a stored key of a full dict removes no
\* other entry.
C29_EvictsOnlyOnGrowth ==
    [][MemorySetStep
       => (RemovedOthers # {}
             <=> /\ ret'.key \notin DOMAIN objs[held].cache
                 /\ Cardinality(DOMAIN objs[held].cache) >= objs[held].max_size)]_vars

\* C29 (amended): a Memory set removes other keys' entries exactly when it
\* begins with an entry count >= max_size, whether its key is new or
\* stored: it removes the least recently accessed entries of the dict it
\* met, so an overwrite of a full dict removes another entry unless the
\* key it overwrites is itself among the least recently accessed.
C29_EvictsAtCapacity ==
    [][MemorySetStep
       => RemovedOthers =
            IF Cardinality(DOMAIN objs[held].cache) >= objs[held].max_size
            THEN EvictedKeys(objs[held]) \ {ret'.key}
            ELSE {}]_vars

\* a set that overwrote a stored key of a full dict of two and removed the
\* entry of the other key
C29_Witness ==
    /\ Returned("set")
    /\ Called.cache_type = "memory"
    /\ ret.found # <<>>
    /\ ret.size0 = 2
    /\ Called.max_size = 2
    /\ DOMAIN Called.cache = {ret.key}

\* ---- C30
\* C30: a Memory set that begins with an entry count >= max_size, for a new
\* key or for a stored one, first runs an eviction pass over the dict as it
\* met it and only then writes its entry: the least recently accessed
\* entries are gone (the old entry of its own key among them, if that was
\* least recently accessed), every other entry is untouched, and the key of
\* the set is stored with the data and the instant of the call.
C30_EvictThenInsert ==
    [][(/\ MemorySetStep
        /\ Cardinality(DOMAIN objs[held].cache) >= objs[held].max_size)
       => LET o == objs[held]
              o2 == objs'[held]
              k == ret'.key
              gone == EvictedKeys(o)
          IN  /\ gone # {}
              /\ DOMAIN o2.cache = (DOMAIN o.cache \ gone) \cup {k}
              /\ \A j \in DOMAIN o2.cache \ {k} : o2.cache[j] = o.cache[j]
              /\ o2.cache[k].data = ret'.data
              /\ o2.cache[k].timestamp = now
              /\ o2.access_order =
                    OdPut(SelectSeq(o.access_order,
                                    LAMBDA it : it.k \notin gone), k, now)
              /\ Cardinality(DOMAIN o2.cache) <= o.max_size]_vars

\* a set that overwrote, in a full dict of two, the key that was least
\* recently accessed: the pass removed the old entry of the key, the set
\* wrote the new one, and the other entry is still stored
C30_Witness ==
    /\ Returned("set")
    /\ Called.cache_type = "memory"
    /\ ret.found # <<>>
    /\ ret.size0 = 2
    /\ Called.max_size = 2
    /\ \E e \in ret.evicted : e.k = ret.key
    /\ Cardinality(DOMAIN Called.cache) = 2
    /\ Called.cache[ret.key].data = ret.data

\* ---- C31
\* the keys whose entries, and the keys whose access-order records, the step
\* removed
RemovedEntries == DOMAIN objs[held].cache \ DOMAIN objs'[held].cache

RemovedRecords ==
    OdKeys(objs[held].access_order) \ OdKeys(objs'[held].access_order)

\* C31: the eviction pass of a Memory set over n tracked keys removes
\* exactly max(1, floor(n / 10)) entries, each of them from the entry map
\* and from the access-order map.  (The pass is observed through a set of
\* a key the dict did not hold, which adds one entry after the pass.)
C31_PassRemovesTenth ==
    [][(/\ MemorySetStep
        /\ ret'.found = <<>>
        /\ Cardinality(DOMAIN objs[held].cache) >= objs[held].max_size)
       => LET n == Len(objs[held].access_order)
              m == IF n \div 10 >= 1 THEN n \div 10 ELSE 1
          IN  /\ Cardinality(RemovedEntries) = m
              /\ RemovedRecords = RemovedEntries
              /\ Cardinality(DOMAIN objs'[held].cache) = n - m + 1
              /\ Len(objs'[held].access_order) = n - m + 1]_vars

\* a set into a full dict of twenty whose pass removed two entries
C31_Witness ==
    /\ Returned("set")
    /\ Called.cache_type = "memory"
    /\ ret.found = <<>>
    /\ ret.size0 = PassMaxSize
    /\ Cardinality(ret.evicted) = 2
    /\ Cardinality(DOMAIN Called.cache) = PassMaxSize - 1
    /\ Len(Called.access_order) = PassMaxSize - 1

\* ---- C32
\* the access-order items of a manager
Items(o) == {o.access_order[i] : i \in 1..Len(o.access_order)}

\* the step is a get that returned a payload, or a set that returned True,
\* on the Memory manager the callers hold
MemoryTouchStep ==
    /\ \/ ret'.op = "get" /\ ret'.result # None
       \/ ret'.op = "set" /\ ret'.result = PyTrue
    /\ ret'.raised = ""
    /\ held' = held
    /\ objs[held].cache_type = "memory"

\* C32: every get that returns a payload and every set on the Memory
\* backend leaves the access-order time of its key at the instant of the
\* call, and an eviction pass follows those times, not the creation times:
\* it never removes an entry and keeps one whose access-order time is
\* smaller, so an entry read after another entry was last touched outlives
\* that entry.
C32_OrderFollowsAccess ==
    [][/\ MemoryTouchStep
          => [k |-> ret'.key, t |-> now] \in Items(objs'[held])
       /\ MemorySetStep
          => \A a \in Items(objs[held]), b \in Items(objs[held]) :
                (/\ a.k # ret'.key
                 /\ b.k # ret'.key
                 /\ a.t > b.t
                 /\ a.k \in RemovedEntries)
                => b.k \in RemovedEntries]_vars

\* a set whose eviction pass removed an entry and kept one that was created
\* before the removed entry was last touched, and read after it
C32_Witness ==
    /\ Returned("set")
    /\ Called.cache_type = "memory"
    /\ \E e \in ret.evicted : \E s \in Items(Called) :
          /\ e.k # ret.key
          /\ s.k # ret.key
          /\ Called.cache[s.k].timestamp < e.t
          /\ s.t > e.t

\* ---- C33
\* the step is a set that returned True, on a Memory or an Embedded-DB
\* manager, for a key that held an entry
OverwriteStep ==
    /\ ret'.op = "set"
    /\ ret'.raised = ""
    /\ ret'.result = PyTrue
    /\ ret'.found # <<>>
    /\ held' = held
    /\ objs[held].cache_type \in {"memory", "sqlite"}

\* C33: a set on a key that holds an entry, live or expired, replaces the
\* payload, the creation time and the ttl together and adds no second
\* entry (the store holds no more entries than before); a get of the key
\* returns the new payload from then on until the ttl of this set, counted
\* from this set, has passed.
C33_Upsert ==
    [][OverwriteStep
       => LET k == ret'.key
              ttl == EffectiveTtl(objs[held], ret'.ttl)
          IN  /\ Stored(HeldWorldAfter, k)
                    = <<[data |-> ret'.data, timestamp |-> now, ttl |-> ttl]>>
              /\ StoredCount(HeldWorldAfter) <= StoredCount(HeldWorld)
              /\ \A t \in now..(now + 3) :
                    CacheGet(HeldWorldAfter, ret'.namespace,
                             ret'.identifier[1], ret'.params, t, FALSE).result
                      = IF t > now + ttl THEN None ELSE ret'.data]_vars

\* a set that replaced an expired Embedded-DB row by a row with another
\* payload and another ttl
C33_Witness ==
    /\ Returned("set")
    /\ ret.result = PyTrue
    /\ Called.cache_type = "sqlite"
    /\ ret.found # <<>>
    /\ IsExpired(ret.found[1], now)
    /\ ret.found[1].data # ret.data
    /\ ret.found[1].ttl # EffectiveTtl(Called, ret.ttl)
    /\ Stored(HeldWorld, ret.key)
          = <<[data |-> ret.data, timestamp |-> now,
               ttl |-> EffectiveTtl(Called, ret.ttl)]>>

\* ---- C34
\* the keys under which the backing store of the manager holds an entry
StoredKeys(w) ==
    IF w.obj.cache_type = "sqlite" THEN DOMAIN w.db
    ELSE IF w.obj.cache_type = "disk" /\ w.obj.cacheKind = "diskcache"
    THEN DiskKeys(w.disk)
    ELSE DOMAIN w.obj.cache

\* the entries the backing store holds: payload, creation time and ttl
Entries(w) == [k \in StoredKeys(w) |-> Stored(w, k)[1]]

\* a Memory manager that holds the entries of the store, with room to spare
MemoryTwin(w) ==
    LET keys == StoredKeys(w)
        e(k) == Stored(w, k)[1]
    IN  [w EXCEPT !.obj =
            [w.obj EXCEPT
                !.cache_type = "memory",
                !.cacheKind = "dict",
                !.max_size = Cardinality(keys) + 2,
                !.cache = [k \in keys |->
                              CacheEntry(e(k).data, e(k).timestamp, e(k).ttl,
                                         k, StrLen(e(k).data))],
                !.access_order = <<>>]]

\* two calls returned the same and left the same entries
SameOutcome(a, b) ==
    /\ a.raised = b.raised
    /\ a.result = b.result
    /\ Entries(a.w) = Entries(b.w)

\* C34: whatever a Disk or an Embedded-DB manager holds, its next get, set
\* or invalidate returns what the same call returns on a Memory manager
\* that holds the same entries below its capacity, and leaves the same
\* entries; in particular an invalidate of a namespace deletes the keys
\* that start with namespace + ":" and no others.
C34_SameAsMemory ==
    (held # 0 /\ Faultable(objs[held]))
    => LET w == HeldWorld
           m == MemoryTwin(HeldWorld)
       IN  \A ns \in {NsA, NsUpper} :
              /\ SameOutcome(CacheGet(w, ns, IdX, <<>>, now, FALSE),
                             CacheGet(m, ns, IdX, <<>>, now, FALSE))
              /\ \A ttl \in {<<>>, <<1>>} :
                    SameOutcome(
                        CacheSet(w, ns, IdX, "v1", ttl, <<>>, now, FALSE),
                        CacheSet(m, ns, IdX, "v1", ttl, <<>>, now, FALSE))
              /\ \A id \in {<<>>, <<IdX>>} :
                    SameOutcome(
                        CacheInvalidate(w, ns, id, <<>>, now, FALSE),
                        CacheInvalidate(m, ns, id, <<>>, now, FALSE))

\* ---- C35
\* C35: in every state of a Memory manager, between calls, the keys of the
\* access-order map are exactly the keys of the entry map, and no key has
\* two access-order records.
C35_OrderTracksEntries ==
    \A i \in Ids :
        objs[i].cache_type = "memory"
        => /\ OdKeys(objs[i].access_order) = DOMAIN objs[i].cache
           /\ Len(objs[i].access_order) = Cardinality(DOMAIN objs[i].cache)

\* a get has just removed an expired entry from a Memory manager that
\* holds no entry and no access-order record any more
C35_Witness ==
    /\ Returned("get")
    /\ Called.cache_type = "memory"
    /\ ret.found # <<>>
    /\ IsExpired(ret.found[1], now)
    /\ ret.key \notin DOMAIN Called.cache
    /\ ret.key \notin OdKeys(Called.access_order)

\* ---- C36
\* the manager was configured with a type that is no backend kind
UnknownKind(o) ==
    o.initialized /\ o.cache_type \notin {"memory", "disk", "sqlite"}

\* C36: on a manager configured with a type other than memory, disk and
\* sqlite, a set returns true and a get of the same key that follows it
\* returns the value that was set.
C36_UnknownKindIsMemory ==
    (Returned("set") /\ UnknownKind(Called))
    => /\ ret.result = PyTrue
       /\ CacheGet(World(Called, diskStore, sqliteDb), ret.namespace,
                   ret.identifier[1], ret.params, now, FALSE).result
            = ret.data

\* ---- C37
\* C37: a set that returns false leaves the entries of the backing store
\* and the access-order map as they were before the call; no entry its
\* eviction pass removed stays removed.
C37_FailedSetChangesNothing ==
    [][(/\ ret'.op = "set"
        /\ ret'.raised = ""
        /\ ret'.result = PyFalse
        /\ held' = held)
       => /\ objs'[held].cache = objs[held].cache
          /\ objs'[held].access_order = objs[held].access_order
          /\ diskStore' = diskStore
          /\ sqliteDb' = sqliteDb]_vars

\* ---- C38
\* C38: a set with ttl 0 that returns True stores its entry with the default
\* ttl of the manager, and a get of the key returns the payload until that
\* default ttl, counted from the set, has passed - not absent at once.
C38_ZeroTtlIsDefault ==
    (/\ Returned("set")
     /\ ret.result = PyTrue
     /\ ret.ttl = <<0>>)
    => LET w == World(Called, diskStore, sqliteDb)
       IN  /\ Stored(w, ret.key) # <<>>
           /\ Stored(w, ret.key)[1].ttl = Called.default_ttl
           /\ \A t \in now..(now + 3) :
                 CacheGet(w, ret.namespace, ret.identifier[1], ret.params,
                          t, FALSE).result
                   = IF t > now + Called.default_ttl THEN None ELSE ret.data

\* a get that returned, at a later instant, the payload a set with ttl 0
\* had stored in a Memory manager
C38_Witness ==
    /\ Returned("get")
    /\ Called.cache_type = "memory"
    /\ ret.result = "v1"
    /\ ret.was # <<>>
    /\ ret.was[1].ttl = <<0>>
    /\ ret.was[1].at < now

\* ---- C39
\* C39: an invalidate whose identifier is the empty string does what the
\* invalidate of the namespace without identifier does: afterwards the
\* store holds no key that starts with namespace + ":", not only no key
\* encode(namespace, ""), and the keys of another namespace are still
\* stored.
C39_EmptyIdentifierWipes ==
    [][(/\ ret'.op = "invalidate"
        /\ ret'.identifier = <<IdEmpty>>
        /\ ret'.raised = ""
        /\ held' = held)
       => /\ HeldWorldAfter
               = CacheInvalidate(HeldWorld, ret'.namespace, <<>>,
                                 ret'.params, now, FALSE).w
          /\ InNamespace(StoredKeys(HeldWorldAfter), ret'.namespace) = {}
          /\ \A k \in StoredKeys(HeldWorld) :
                ~StartsWith(k, ret'.namespace \o <<Colon>>)
                => /\ k \in StoredKeys(HeldWorldAfter)
                   /\ Stored(HeldWorldAfter, k) = Stored(HeldWorld, k)]_vars

\* an invalidate with the empty identifier has removed two keys of its
\* namespace from a Memory manager and left the key of the other namespace
C39_Witness ==
    /\ Returned("invalidate")
    /\ ret.identifier = <<IdEmpty>>
    /\ Called.cache_type = "memory"
    /\ ret.size0 = 3
    /\ DOMAIN Called.cache = {GenerateKey(NsB, IdX, <<>>)}

\* ---- C40
\* the backend of the manager is set up for its cache_type
BackendReady(o) ==
    IF o.cache_type = "sqlite" THEN o.conn
    ELSE IF o.cache_type = "disk" THEN o.cacheKind \in {"diskcache", "dict"}
    ELSE o.cacheKind = "dict"

\* the configuration a construction was called with
Passed(call) == IF call.cfg = <<>> THEN NoneConfig ELSE call.cfg[1]

\* C40: a construction that returns after an earlier construction raised in
\* its backend set-up has initialised the manager from its own
\* configuration: cache_type and default_ttl are the ones passed to it and
\* the backend is set up; and every manager a caller holds is initialised
\* with its backend set up.
C40_RetryInitialises ==
    /\ (Returned("construct") /\ ret.retried)
       => /\ held = ret.ref
          /\ Called.initialized
          /\ Called.cache_type = ConfigGet(Passed(ret).type, "memory")
          /\ Called.default_ttl = ConfigGet(Passed(ret).default_ttl, DefaultTtl)
          /\ BackendReady(Called)
    /\ held # 0 => (objs[held].initialized /\ BackendReady(objs[held]))

\* a construction with a Memory configuration has returned after a
\* construction had raised, and the manager it initialised serves a set
C40_Witness ==
    /\ Returned("construct")
    /\ ret.retried
    /\ ret.first
    /\ Called.cache_type = "memory"
    /\ Called.max_size = 2
    /\ CacheSet(HeldWorld, NsA, IdX, "v1", <<>>, <<>>, now, FALSE).result
          = PyTrue

====
